---- MODULE Spec2Model ----
(***************************************************************************)
(* Spatial memory, semantic validation and repair loop of the drawing      *)
(* system (state/memory.py, agent/semantic_validator.py, main_loop.py,     *)
(* execution/coordinate_mapper.py, agent/langchain_memory.py).             *)
(*                                                                         *)
(* Conventions.  A coordinate is an integer number of thousandths: 400     *)
(* stands for 0.4 and 1000 for 1.0; every coordinate of the input pools is *)
(* even, so that (min + max) / 2 is exact.  A string that the code splits  *)
(* on "_" is the sequence of its tokens: "square_1_center" is              *)
(* <<"square", "1", "center">>; None and "" (both falsy) are <<>>.  A dict *)
(* is a function whose DOMAIN is its key set.                              *)
(***************************************************************************)
EXTENDS Integers, Sequences, FiniteSets, TLC

VARIABLES memory, issued, last, input

vars == <<memory, issued, last, input>>

(***************************************************************************)
(* Bounds of the model.                                                    *)
(***************************************************************************)
MaxId == 3          \* add_strokes is offered while _next_stroke_id < MaxId
MaxBatch == 2       \* strokes per add_strokes call
MaxUndo == 2        \* largest count handed to undo_last_strokes

(***************************************************************************)
(* Python helpers.                                                         *)
(***************************************************************************)
None == <<>>

EmptyDict == <<>>

Get(d, k, default) == IF k \in DOMAIN d THEN d[k] ELSE default

Put(d, k, v) == [x \in DOMAIN d \cup {k} |-> IF x = k THEN v ELSE d[x]]

DictUpdate(d, e) == [x \in DOMAIN d \cup DOMAIN e |-> IF x \in DOMAIN e THEN e[x] ELSE d[x]]

DecimalDigits == <<"0", "1", "2", "3", "4", "5", "6", "7", "8", "9">>

\* str(n) for the small n the model reaches
Str(n) == DecimalDigits[n + 1]

\* str.isdigit() of one token
IsDigit(tok) == \E i \in DOMAIN DecimalDigits : DecimalDigits[i] = tok

\* int(tok) of a token that isdigit()
ToInt(tok) == (CHOOSE i \in DOMAIN DecimalDigits : DecimalDigits[i] = tok) - 1

Min2(a, b) == IF a <= b THEN a ELSE b

Max2(a, b) == IF a >= b THEN a ELSE b

\* min() and max() of a non-empty list
MinOf(s) == CHOOSE v \in {s[i] : i \in DOMAIN s} : \A i \in DOMAIN s : v <= s[i]

MaxOf(s) == CHOOSE v \in {s[i] : i \in DOMAIN s} : \A i \in DOMAIN s : v >= s[i]

Xs(points) == [i \in DOMAIN points |-> points[i][1]]

Ys(points) == [i \in DOMAIN points |-> points[i][2]]

\* a value that is not an int or a float (a string, None, ...)
NotANumber == 0 - 7777

IsNumber(c) == c # NotANumber

NumericPoints(points) == \A i \in DOMAIN points : IsNumber(points[i][1]) /\ IsNumber(points[i][2])

(***************************************************************************)
(* state/memory.py: Stroke and DrawingMemory.                              *)
(***************************************************************************)
Stroke(id, points, label, state) == [id |-> id, points |-> points, label |-> label, state |-> state]

Point(x, y) == [kind |-> "point", x |-> x, y |-> y]

Scalar(v) == [kind |-> "scalar", x |-> v, y |-> 0]

Center == <<500, 500>>

\* lines 19-28; last_question None is the empty string
DrawingMemory == [strokes_history |-> <<>>, features |-> EmptyDict, anchors |-> EmptyDict,
                  last_position |-> Center, stop_flag |-> FALSE, next_stroke_id |-> 0,
                  last_question |-> ""]

SideNames == {<<"center">>, <<"top">>, <<"bottom">>, <<"left">>, <<"right">>,
              <<"top", "left">>, <<"top", "right">>, <<"bottom", "left">>, <<"bottom", "right">>}

\* f"{base_name}_{shape_num}_{side}"
AnchorName(base_name, shape_num, side) == base_name \o <<shape_num>> \o side

\* lines 97-103: base name and shape number of a label
BaseName(label) ==
    IF Len(label) > 1 /\ IsDigit(label[Len(label)]) THEN SubSeq(label, 1, Len(label) - 1) ELSE label

ShapeNum(label) ==
    IF Len(label) > 1 /\ IsDigit(label[Len(label)]) THEN label[Len(label)] ELSE "1"

\* lines 89-116 (mutant: top and bottom take each other's y)
SideValueSwapped(points, side) ==
    LET min_x == MinOf(Xs(points))
        max_x == MaxOf(Xs(points))
        min_y == MinOf(Ys(points))
        max_y == MaxOf(Ys(points))
        center_x == (min_x + max_x) \div 2
        center_y == (min_y + max_y) \div 2
    IN  CASE side = <<"center">> -> Point(center_x, center_y)
          [] side = <<"top">> -> Point(center_x, min_y)
          [] side = <<"bottom">> -> Point(center_x, max_y)
          [] side = <<"left">> -> Point(min_x, center_y)
          [] side = <<"right">> -> Point(max_x, center_y)
          [] side = <<"top", "left">> -> Point(min_x, max_y)
          [] side = <<"top", "right">> -> Point(max_x, max_y)
          [] side = <<"bottom", "left">> -> Point(min_x, min_y)
          [] side = <<"bottom", "right">> -> Point(max_x, min_y)

\* lines 89-116: the nine side anchors of a point sequence
SideValue(points, side) ==
    LET min_x == MinOf(Xs(points))
        max_x == MaxOf(Xs(points))
        min_y == MinOf(Ys(points))
        max_y == MaxOf(Ys(points))
        center_x == (min_x + max_x) \div 2
        center_y == (min_y + max_y) \div 2
    IN  CASE side = <<"center">> -> Point(center_x, center_y)
          [] side = <<"top">> -> Point(center_x, max_y)
          [] side = <<"bottom">> -> Point(center_x, min_y)
          [] side = <<"left">> -> Point(min_x, center_y)
          [] side = <<"right">> -> Point(max_x, center_y)
          [] side = <<"top", "left">> -> Point(min_x, max_y)
          [] side = <<"top", "right">> -> Point(max_x, max_y)
          [] side = <<"bottom", "left">> -> Point(min_x, min_y)
          [] side = <<"bottom", "right">> -> Point(max_x, min_y)

\* lines 118-121 (mutant: a derived anchor is always stored)
KeepNothing(anchors, name) == FALSE

\* lines 118-121: a derived anchor is stored only under a name that is absent
KeepExisting(anchors, name) == name \in DOMAIN anchors

auto_generate_side_anchors(m, stroke, label) ==
    IF stroke.points = <<>> THEN m
    ELSE LET base_name == BaseName(label)
             shape_num == ShapeNum(label)
             names == {AnchorName(base_name, shape_num, side) : side \in SideNames}
             SideOf(name) == CHOOSE side \in SideNames : AnchorName(base_name, shape_num, side) = name
         IN  [m EXCEPT !.anchors =
                 [name \in DOMAIN m.anchors \cup names |->
                     IF name \in names /\ ~KeepExisting(m.anchors, name)
                     THEN SideValue(stroke.points, SideOf(name))
                     ELSE m.anchors[name]]]

\* lines 41-47: number of strokes of the history per base label
ShapeCounts(history) ==
    LET labelled == {i \in DOMAIN history : history[i].label # None}
        bases == {history[i].label[1] : i \in labelled}
    IN  [b \in bases |-> Cardinality({i \in labelled : history[i].label[1] = b})]

\* line 52
LabelOf(labels, i) ==
    LET a == Get(labels, <<"stroke", Str(i)>>, None)
    IN  IF a # None THEN a ELSE Get(labels, <<Str(i)>>, None)

\* lines 55-64
NumberedLabel(shape_counts, label) ==
    LET base_label == label[1]
        count == Get(shape_counts, base_label, 0)
    IN  IF count > 0 THEN <<base_label, Str(count + 1)>> ELSE <<base_label, "1">>

\* line 63 (mutant: the count of the call is not advanced)
BumpCountNever(shape_counts, base_label) == shape_counts

\* line 63
BumpCount(shape_counts, base_label) ==
    Put(shape_counts, base_label, Get(shape_counts, base_label, 0) + 1)

\* line 50 (mutant: the id is taken from the length of the history)
NewStrokeIdFromLength(m) == Len(m.strokes_history)

\* line 50: the id given to the next stroke
NewStrokeId(m) == m.next_stroke_id

\* lines 49-77: the loop over the strokes of one call, from index i (0-based) on.
\* A labelled stroke with a non-numeric coordinate raises TypeError in
\* _auto_generate_side_anchors, after the stroke was appended (lines 66-73).
RECURSIVE AddLoop(_, _, _, _, _, _, _)
AddLoop(m, shape_counts, strokes, labels, state, i, stroke_ids) ==
    IF i >= Len(strokes) THEN [mem |-> m, ids |-> stroke_ids, raised |-> FALSE]
    ELSE LET points == strokes[i + 1]
             stroke_id == NewStrokeId(m)
             raw == LabelOf(labels, i)
             label == IF raw # None THEN NumberedLabel(shape_counts, raw) ELSE None
             counts2 == IF raw # None THEN BumpCount(shape_counts, raw[1]) ELSE shape_counts
             stroke == Stroke(stroke_id, points, label, state)
             m1 == [m EXCEPT !.strokes_history = Append(@, stroke),
                             !.next_stroke_id = @ + 1]
             ids1 == Append(stroke_ids, stroke_id)
         IN  IF points # <<>> /\ label # None /\ ~NumericPoints(points)
             THEN [mem |-> m1, ids |-> ids1, raised |-> TRUE]
             ELSE LET m2 == IF points # <<>> /\ label # None
                            THEN auto_generate_side_anchors(m1, stroke, label) ELSE m1
                      m3 == IF points # <<>>
                            THEN [m2 EXCEPT !.last_position = points[Len(points)]] ELSE m2
                  IN  AddLoop(m3, counts2, strokes, labels, state, i + 1, ids1)

add_strokes(m, strokes, labels, state) ==
    AddLoop(m, ShapeCounts(m.strokes_history), strokes, labels, state, 0, <<>>)

\* line 123-125
update_anchors(m, anchors) == [m EXCEPT !.anchors = DictUpdate(@, anchors)]

RemoveId(ids, id) == LET Keep(x) == x # id IN SelectSeq(ids, Keep)

\* lines 301-304 and 321-323 (mutant: the feature index is left as it is)
RemoveFromNoFeature(features, id) == features

\* lines 301-304 and 321-323: list.remove(stroke.id) in every feature
RemoveFromFeatures(features, id) == [k \in DOMAIN features |-> RemoveId(features[k], id)]

\* lines 277-287 (mutant: every stroke of the history is counted)
ConfirmCountingAll(m) ==
    [mem |-> [m EXCEPT !.strokes_history = [i \in DOMAIN @ |-> [@[i] EXCEPT !.state = "confirmed"]]],
     count |-> Len(m.strokes_history)]

\* lines 277-287
confirm_preview_strokes(m) ==
    [mem |-> [m EXCEPT !.strokes_history =
                 [i \in DOMAIN @ |-> IF @[i].state = "preview"
                                     THEN [@[i] EXCEPT !.state = "confirmed"] ELSE @[i]]],
     count |-> Cardinality({i \in DOMAIN m.strokes_history : m.strokes_history[i].state = "preview"})]

RECURSIVE RemoveAllFromFeatures(_, _)
RemoveAllFromFeatures(features, strokes) ==
    IF strokes = <<>> THEN features
    ELSE RemoveAllFromFeatures(RemoveFromFeatures(features, strokes[1].id), Tail(strokes))

\* lines 289-306
reject_preview_strokes(m) ==
    LET IsPreview(s) == s.state = "preview"
        NotPreview(s) == s.state # "preview"
        preview_strokes == SelectSeq(m.strokes_history, IsPreview)
    IN  [mem |-> [m EXCEPT !.strokes_history = SelectSeq(@, NotPreview),
                           !.features = RemoveAllFromFeatures(@, preview_strokes)],
         count |-> Len(preview_strokes)]

\* lines 316-323: pop the last stroke, `removed` times
RECURSIVE PopStrokes(_, _)
PopStrokes(m, removed) ==
    IF removed = 0 \/ m.strokes_history = <<>> THEN m
    ELSE LET stroke == m.strokes_history[Len(m.strokes_history)]
         IN  PopStrokes([m EXCEPT !.strokes_history = SubSeq(@, 1, Len(@) - 1),
                                  !.features = RemoveFromFeatures(@, stroke.id)],
                        removed - 1)

\* line 316 (mutant: every stroke of the history is removed)
RemovedAll(count, length) == length

\* line 316: the number of strokes to pop
Removed(count, length) == Min2(count, length)

\* lines 308-331
undo_last_strokes(m, count) ==
    IF count <= 0 THEN m
    ELSE LET removed == Removed(count, Len(m.strokes_history))
             m1 == PopStrokes(m, removed)
         IN  IF m1.strokes_history # <<>>
             THEN LET last_stroke == m1.strokes_history[Len(m1.strokes_history)]
                  IN  IF last_stroke.points # <<>>
                      THEN [m1 EXCEPT !.last_position = last_stroke.points[Len(last_stroke.points)]]
                      ELSE m1
             ELSE [m1 EXCEPT !.last_position = Center]

\* int(key.split("_")[-1]) if "_" in key else int(key), for the keys
\* "stroke_<i>" and "<i>" that the prompts ask the generator for
KeyIndex(key) == ToInt(key[Len(key)])

KeyRank(key) == 2 * KeyIndex(key) + (IF Len(key) = 1 THEN 1 ELSE 0)

\* labels.items(): the keys in the order of the dict, which lists the strokes
\* by ascending index
RECURSIVE SortKeys(_)
SortKeys(ks) ==
    IF ks = {} THEN <<>>
    ELSE LET k == CHOOSE c \in ks : \A o \in ks : KeyRank(c) <= KeyRank(o)
         IN  <<k>> \o SortKeys(ks \ {k})

OrderedKeys(labels) == SortKeys(DOMAIN labels)

Contains(s, x) == \E i \in DOMAIN s : s[i] = x

\* lines 131-143: the loop over labels.items(), from position n of the keys on
RECURSIVE FeatureLoop(_, _, _, _, _)
FeatureLoop(features, labels, keys, stroke_ids, n) ==
    IF n > Len(keys) THEN features
    ELSE LET label_name == labels[keys[n]]
             idx == KeyIndex(keys[n])
             f1 == IF label_name \in DOMAIN features THEN features ELSE Put(features, label_name, <<>>)
             f2 == IF idx < Len(stroke_ids) /\ ~Contains(f1[label_name], stroke_ids[idx + 1])
                   THEN [f1 EXCEPT ![label_name] = Append(@, stroke_ids[idx + 1])]
                   ELSE f1
         IN  FeatureLoop(IF label_name # None THEN f2 ELSE features, labels, keys, stroke_ids, n + 1)

\* lines 127-143: features[label]["stroke_ids"], kept as the list of ids
update_features(m, labels, stroke_ids) ==
    [m EXCEPT !.features = FeatureLoop(@, labels, OrderedKeys(labels), stroke_ids, 1)]

\* line 161: stroke.label or f"unlabeled_{i}", i the 0-based position
GroupLabel(history, i) ==
    IF history[i + 1].label # None THEN history[i + 1].label ELSE <<"unlabeled", Str(i)>>

\* lines 157-164: the positions that enter shape_groups; a stroke without
\* points is skipped
Grouped(history) == {i \in 0..(Len(history) - 1) : history[i + 1].points # <<>>}

\* lines 182-200: up to 10 points are all shown, of more the first and the
\* last three
ShownPoints(points) ==
    IF Len(points) <= 10 THEN points
    ELSE SubSeq(points, 1, 3) \o SubSeq(points, Len(points) - 2, Len(points))

\* lines 168-217: the three lines of the text for the stroke at position i:
\* heading (label, position, id), bounding box and points.  The heading
\* carries the position a second time when the label groups several strokes.
StrokeEntry(history, grouped, i) ==
    LET stroke == history[i + 1]
        label == GroupLabel(history, i)
        alone == \A j \in grouped : j # i => GroupLabel(history, j) # label
    IN  [heading |-> IF alone THEN label ELSE label \o <<Str(i)>>,
         index |-> i, id |-> stroke.id,
         center |-> SideValue(stroke.points, <<"center">>),
         top_right |-> SideValue(stroke.points, <<"top", "right">>),
         bottom_left |-> SideValue(stroke.points, <<"bottom", "left">>),
         points |-> ShownPoints(stroke.points), total |-> Len(stroke.points)]

\* lines 227-231: the group an anchor name is listed under
ShapeKey(name) ==
    IF Len(name) >= 2
    THEN IF name[Len(name)] \in {"center", "top", "bottom", "left", "right"}
         THEN SubSeq(name, 1, Len(name) - 1) ELSE SubSeq(name, 1, 2)
    ELSE <<"other">>

\* lines 226-261: the line "name: value" of an anchor, under its group
AnchorEntry(anchors, name) == [shape_key |-> ShapeKey(name), name |-> name, value |-> anchors[name]]

\* lines 170-187: min(), max() and the format .3f raise on a coordinate that
\* is no number, for every stroke that has points
SummaryRaises(m) ==
    \E i \in DOMAIN m.strokes_history :
        m.strokes_history[i].points # <<>> /\ ~NumericPoints(m.strokes_history[i].points)

\* lines 145-263: the text, as the set of its stroke entries and the set of
\* its anchor lines, with the number of strokes its first line announces
\* (0 with "No strokes drawn yet.").  The order of the lines (sorted by
\* label, by group and by name) and the grid cells printed beside every
\* coordinate are left out.
get_state_summary(m) ==
    [total |-> Len(m.strokes_history),
     strokes |-> {StrokeEntry(m.strokes_history, Grouped(m.strokes_history), i) :
                     i \in Grouped(m.strokes_history)},
     anchors |-> {AnchorEntry(m.anchors, name) : name \in DOMAIN m.anchors}]

\* lines 333-348: a stroke is written with id, points and label
to_dict(m) ==
    [strokes_history |-> [i \in DOMAIN m.strokes_history |->
                            [id |-> m.strokes_history[i].id,
                             points |-> m.strokes_history[i].points,
                             label |-> m.strokes_history[i].label]],
     features |-> m.features, anchors |-> m.anchors,
     last_position |-> m.last_position, stop_flag |-> m.stop_flag]

\* line 16: the default of Stroke.state
DefaultState == "confirmed"

\* lines 362-363: the counter follows the largest id of the history
NextIdAfter(history) ==
    IF history # <<>> THEN MaxOf([i \in DOMAIN history |-> history[i].id]) + 1 ELSE 0

\* lines 350-364: DrawingMemory.from_dict
memory_from_dict(data) ==
    LET history == [i \in DOMAIN data.strokes_history |->
                      Stroke(data.strokes_history[i].id, data.strokes_history[i].points,
                             data.strokes_history[i].label, DefaultState)]
    IN  [DrawingMemory EXCEPT !.strokes_history = history, !.features = data.features,
                              !.anchors = data.anchors, !.last_position = data.last_position,
                              !.stop_flag = data.stop_flag,
                              !.next_stroke_id = NextIdAfter(history)]

(***************************************************************************)
(* agent/semantic_validator.py.  Lengths are thousandths, areas are        *)
(* millionths (width * height of thousandths).  The distance of two boxes  *)
(* is kept as its square, and a ratio as numerator and denominator: every  *)
(* comparison of the code is made on these exact integers.                 *)
(***************************************************************************)
\* lines 26-39
from_points(points) ==
    IF points = <<>>
    THEN [min_x |-> 0, max_x |-> 0, min_y |-> 0, max_y |-> 0,
          center_x |-> 0, center_y |-> 0, width |-> 0, height |-> 0]
    ELSE LET min_x == MinOf(Xs(points))
             max_x == MaxOf(Xs(points))
             min_y == MinOf(Ys(points))
             max_y == MaxOf(Ys(points))
         IN  [min_x |-> min_x, max_x |-> max_x, min_y |-> min_y, max_y |-> max_y,
              center_x |-> (min_x + max_x) \div 2, center_y |-> (min_y + max_y) \div 2,
              width |-> max_x - min_x, height |-> max_y - min_y]

ValidationIssue(severity, category, affected_strokes) ==
    [severity |-> severity, category |-> category, affected_strokes |-> affected_strokes]

ValidationResult(valid, score, issues) == [valid |-> valid, score |-> score, issues |-> issues]

\* line 73: min_spacing = 0.05, max_overlap_ratio = 0.1
min_spacing == 50

max_overlap_ratio == 100

RECURSIVE Flatten(_)
Flatten(ss) == IF ss = <<>> THEN <<>> ELSE ss[1] \o Flatten(Tail(ss))

Area(box) == box.width * box.height

\* lines 360-361, mutated: the overlap without max(0, ...)
NotClamped(v) == v

\* lines 360-361: max(0, v)
ClampToZero(v) == Max2(0, v)

\* lines 357-372: intersection / union, as the pair (num, den)
compute_overlap_ratio(box1, box2) ==
    LET x_overlap == ClampToZero(Min2(box1.max_x, box2.max_x) - Max2(box1.min_x, box2.min_x))
        y_overlap == ClampToZero(Min2(box1.max_y, box2.max_y) - Max2(box1.min_y, box2.min_y))
        intersection == x_overlap * y_overlap
        union == Area(box1) + Area(box2) - intersection
    IN  IF union <= 0 THEN [num |-> 0, den |-> 1] ELSE [num |-> intersection, den |-> union]

\* ratio > thousandths / 1000
RatioAbove(ratio, thousandths) == ratio.num * 1000 > thousandths * ratio.den

\* lines 374-397: the square of the distance of two boxes
compute_distance_squared(box1, box2) ==
    LET x_overlap == Min2(box1.max_x, box2.max_x) - Max2(box1.min_x, box2.min_x)
        y_overlap == Min2(box1.max_y, box2.max_y) - Max2(box1.min_y, box2.min_y)
        x_gap == Max2(0, Max2(box1.min_x, box2.min_x) - Min2(box1.max_x, box2.max_x))
        y_gap == Max2(0, Max2(box1.min_y, box2.min_y) - Min2(box1.max_y, box2.max_y))
        x_dist == IF x_overlap > 0 THEN 0 ELSE x_gap
        y_dist == IF x_overlap > 0 THEN y_gap ELSE IF y_overlap > 0 THEN 0 ELSE y_gap
    IN  IF x_overlap > 0 /\ y_overlap > 0 THEN 0 ELSE x_dist * x_dist + y_dist * y_dist

\* lines 146-169
check_overlaps(boxes) ==
    Flatten([i \in 1..Len(boxes) |->
        Flatten([j \in 1..Len(boxes) |->
            IF j > i /\ RatioAbove(compute_overlap_ratio(boxes[i], boxes[j]), max_overlap_ratio)
            THEN <<ValidationIssue("error", "overlap", <<i - 1, j - 1>>)>>
            ELSE <<>>])])

\* the user instructions of the model
PlainInstruction == "draw a square"

BesideInstruction == "draw a circle beside the square"

FarInstruction == "draw it far to the right"

StopInstruction == "stop"

ContinueInstruction == "continue"

YesInstruction == "yes"

\* x in instruction.lower(), for the instructions of the model
Substrings(instruction) ==
    CASE instruction = BesideInstruction -> {"beside"}
      [] instruction = FarInstruction -> {"far", "to the right"}
      [] OTHER -> {}

In(phrase, instruction) == phrase \in Substrings(instruction)

\* lines 183-190: the expected spacing, None when no phrase is found
expected_spacing(instruction) ==
    IF In("much further", instruction) \/ In("far", instruction) THEN <<300>>
    ELSE IF In("beside", instruction) \/ In("next to", instruction) THEN <<100>>
    ELSE IF In("to the left", instruction) \/ In("to the right", instruction) THEN <<150>>
    ELSE None

\* lines 193-215, for one new box: d is min_distance and e expected_spacing;
\* d < min_spacing and abs(d - e) > e * 0.5 are compared on the squares
SpacingIssue(new_box, existing_boxes, e, i) ==
    LET d2 == MinOf([k \in DOMAIN existing_boxes |-> compute_distance_squared(new_box, existing_boxes[k])])
    IN  IF d2 < min_spacing * min_spacing
        THEN <<ValidationIssue("error", "spacing", <<i>>)>>
        ELSE IF 4 * d2 > 9 * e * e \/ 4 * d2 < e * e
             THEN <<ValidationIssue("warning", "spacing", <<i>>)>>
             ELSE <<>>

\* lines 171-217; the caller passes at least one existing box
check_spacing(new_boxes, existing_boxes, instruction) ==
    LET e == expected_spacing(instruction)
    IN  IF e = None THEN <<>>
        ELSE Flatten([i \in 1..Len(new_boxes) |-> SpacingIssue(new_boxes[i], existing_boxes, e[1], i - 1)])

\* (size, index) pairs compare as Python tuples do
TupleLess(s1, i1, s2, i2) == s1 < s2 \/ (s1 = s2 /\ i1 < i2)

\* lines 219-250
check_ratios(boxes) ==
    IF Len(boxes) < 2 THEN <<>>
    ELSE LET largest_idx == CHOOSE i \in DOMAIN boxes :
                 \A j \in DOMAIN boxes : j # i => TupleLess(Area(boxes[j]), j, Area(boxes[i]), i)
             smallest_idx == CHOOSE i \in DOMAIN boxes :
                 \A j \in DOMAIN boxes : j # i => TupleLess(Area(boxes[i]), i, Area(boxes[j]), j)
             largest_size == Area(boxes[largest_idx])
             smallest_size == Area(boxes[smallest_idx])
         IN  IF largest_size > 0 /\ smallest_size > 0 /\ largest_size > 100 * smallest_size
             THEN <<ValidationIssue("error", "ratio", <<largest_idx - 1, smallest_idx - 1>>)>>
             ELSE <<>>

Abs(v) == IF v < 0 THEN 0 - v ELSE v

\* line 302, mutated: x_overlap > 0
OverlappingInXAtAll(x_overlap) == x_overlap > 0

\* line 302: x_overlap > 0.01
OverlappingInX(x_overlap) == x_overlap > 10

\* lines 284-320: the three checks of one pair
PairIssues(idx1, box1, idx2, box2) ==
    LET size1 == Area(box1)
        size2 == Area(box2)
        x_overlap == Min2(box1.max_x, box2.max_x) - Max2(box1.min_x, box2.min_x)
        y_diff == Abs(box1.center_y - box2.center_y)
        max_height == Max2(box1.height, box2.height)
    IN  (IF size1 > 0 /\ size2 > 0 /\ Max2(size1, size2) > 2 * Min2(size1, size2)
         THEN <<ValidationIssue("warning", "symmetry", <<idx1, idx2>>)>> ELSE <<>>)
        \o (IF OverlappingInX(x_overlap)
            THEN <<ValidationIssue("error", "symmetry", <<idx1, idx2>>)>> ELSE <<>>)
        \o (IF 2 * y_diff > max_height
            THEN <<ValidationIssue("warning", "symmetry", <<idx1, idx2>>)>> ELSE <<>>)

\* lines 252-322: groups of exactly two labels with one base name
check_pair_symmetry(boxes, labels) ==
    LET keys == OrderedKeys(labels)
        Labelled(k) == labels[k] # None
        entries == SelectSeq(keys, Labelled)
        Base(n) == labels[entries[n]][1]
        Group(n) == LET Same(k) == labels[k][1] = Base(n) IN SelectSeq(entries, Same)
        First(n) == \A p \in 1..(n - 1) : Base(p) # Base(n)
        GroupIssues(n) ==
            LET group == Group(n)
                idx1 == KeyIndex(group[1])
                idx2 == KeyIndex(group[2])
            IN  IF idx1 >= Len(boxes) \/ idx2 >= Len(boxes) THEN <<>>
                ELSE PairIssues(idx1, boxes[idx1 + 1], idx2, boxes[idx2 + 1])
    IN  Flatten([n \in 1..Len(entries) |->
            IF First(n) /\ Len(Group(n)) = 2 THEN GroupIssues(n) ELSE <<>>])

\* line 336, mutated: size < 0.05
VerySmallCoarse(size) == size < 50000

\* line 336: size < 0.005
VerySmall(size) == size < 5000

\* lines 324-355
check_sizes(boxes) ==
    Flatten([i \in 1..Len(boxes) |->
        (IF VerySmall(Area(boxes[i])) THEN <<ValidationIssue("warning", "size", <<i - 1>>)>> ELSE <<>>)
        \o (IF Area(boxes[i]) > 800000 THEN <<ValidationIssue("warning", "size", <<i - 1>>)>> ELSE <<>>)])

\* lines 408 and 410: the deductions, and line 138: the threshold
ErrorPenalty == 300

WarningPenalty == 100

ValidThreshold == 700

\* A Python float (IEEE 754 binary64) near a decimal: the value
\* dec / 1000 + err * 2^-56 / 5, with dec a whole number of tenths in
\* thousandths.  The double is the integer n = (dec / 100 * 2^55 + err) / 5 of
\* units 2^-56, and 2^55 is 0 modulo every power of two below it, so that
\* n = Inv5 * err modulo 2 * Ulp.
Float(dec, err) == [dec |-> dec, err |-> err]

\* the inverse of 5 modulo 256
Inv5 == 205

\* the spacing of the doubles around a value, in units of 2^-56: 53
\* significant bits, so 8 in [0.5, 1), 16 in [1, 2), 4 in [0.25, 0.5), ...
Ulp(dec, err) ==
    LET negative == dec < 0 \/ (dec = 0 /\ err < 0)
        d == IF negative THEN 0 - dec ELSE dec
        e == IF negative THEN 0 - err ELSE err
        AtLeast(t) == d > t \/ (d = t /\ e >= 0)
    IN  IF AtLeast(8000) THEN 128
        ELSE IF AtLeast(4000) THEN 64
        ELSE IF AtLeast(2000) THEN 32
        ELSE IF AtLeast(1000) THEN 16
        ELSE IF AtLeast(500) THEN 8
        ELSE IF d >= 300 THEN 4
        ELSE IF d >= 200 THEN 2
        ELSE 1

\* round to nearest, ties to even: the double nearest to an exact result
\* that is a whole number of units 2^-56
RoundToDouble(dec, err) ==
    LET ulp == Ulp(dec, err)
        n2 == (Inv5 * err) % (2 * ulp)
        q == n2 % ulp
        delta == IF 2 * q < ulp THEN 0 - q
                 ELSE IF 2 * q > ulp THEN ulp - q
                 ELSE IF n2 = q THEN 0 - q ELSE ulp - q
    IN  Float(dec, err + 5 * delta)

\* a float literal such as 0.3: the double nearest to the decimal, a whole
\* number of ulps (err = 0 modulo Ulp) of units (2^55 = 3 modulo 5)
FloatOf(dec) ==
    LET ulp == Ulp(dec, 0)
    IN  Float(dec, CHOOSE e \in (0 - 3 * ulp)..(3 * ulp) :
                       /\ e % ulp = 0
                       /\ (e + 3 * (dec \div 100)) % 5 = 0
                       /\ 2 * e <= 5 * ulp /\ 2 * e >= 0 - 5 * ulp)

\* a - b of two floats
FloatSub(a, b) == RoundToDouble(a.dec - b.dec, a.err - b.err)

\* a < b of two floats
FloatLess(a, b) == a.dec < b.dec \/ (a.dec = b.dec /\ a.err < b.err)

\* lines 407-410 (mutant: an error costs what a warning costs)
DeductedFlat(score, severity) ==
    IF severity \in {"error", "warning"} THEN FloatSub(score, FloatOf(WarningPenalty)) ELSE score

\* lines 407-410: score -= 0.3 for an error, score -= 0.1 for a warning
Deducted(score, severity) ==
    IF severity = "error" THEN FloatSub(score, FloatOf(ErrorPenalty))
    ELSE IF severity = "warning" THEN FloatSub(score, FloatOf(WarningPenalty))
    ELSE score

RECURSIVE Deduct(_, _)
Deduct(score, issues) ==
    IF issues = <<>> THEN score
    ELSE Deduct(Deducted(score, issues[1].severity), Tail(issues))

\* line 412: max(0.0, score)
FloorAtZero(score) == IF FloatLess(FloatOf(0), score) THEN score ELSE FloatOf(0)

\* lines 399-412
calculate_score(issues) ==
    IF issues = <<>> THEN FloatOf(1000) ELSE FloorAtZero(Deduct(FloatOf(1000), issues))

HasError(issues) == \E i \in DOMAIN issues : issues[i].severity = "error"

\* line 138 (mutant: the score alone decides)
ValidByScoreOnly(score, issues) == ~FloatLess(score, FloatOf(ValidThreshold))

\* line 138 (mutant: the errors alone decide)
ValidByErrorsOnly(score, issues) == ~HasError(issues)

\* line 138
Valid(score, issues) == ~FloatLess(score, FloatOf(ValidThreshold)) /\ ~HasError(issues)

\* lines 136-144: the score and the verdict of an issue list
Verdict(score, issues) == ValidationResult(Valid(score, issues), score, issues)

Scored(issues) == Verdict(calculate_score(issues), issues)

\* lines 107-133: the five checks, in the order of the code
Checks(new_boxes, existing_boxes, labels, instruction) ==
    check_overlaps(new_boxes)
    \o (IF existing_boxes # <<>> /\ instruction # ""
        THEN check_spacing(new_boxes, existing_boxes, instruction) ELSE <<>>)
    \o (IF Len(new_boxes) > 1 THEN check_ratios(new_boxes) ELSE <<>>)
    \o check_pair_symmetry(new_boxes, labels)
    \o check_sizes(new_boxes)

\* lines 84-144
validate(strokes, labels, anchors, existing_strokes, instruction) ==
    IF strokes = <<>> THEN ValidationResult(TRUE, FloatOf(1000), <<>>)
    ELSE Scored(Checks([i \in DOMAIN strokes |-> from_points(strokes[i])],
                       [i \in DOMAIN existing_strokes |-> from_points(existing_strokes[i])],
                       labels, instruction))

(***************************************************************************)
(* main_loop.py: _validate_and_repair.  The k-th repair call of call_llm   *)
(* answers with gen[k]: a response, or an exception.                       *)
(***************************************************************************)
\* agent/llm_wrapper.py, lines 16-24; raises tells a call that ended in an exception
LLMResponse(strokes, anchors, labels, assistant_message, done) ==
    [raises |-> FALSE, strokes |-> strokes, anchors |-> anchors, labels |-> labels,
     assistant_message |-> assistant_message, done |-> done]

Raises == [raises |-> TRUE, strokes |-> <<>>, anchors |-> EmptyDict, labels |-> EmptyDict,
           assistant_message |-> "", done |-> FALSE]

\* line 311
ExistingStrokes(m) == [i \in DOMAIN m.strokes_history |-> m.strokes_history[i].points]

\* line 331 (mutant: a later candidate of equal score replaces the best)
BetterOrEqual(score, best_score) == ~FloatLess(score, best_score)

\* line 331
Better(score, best_score) == FloatLess(best_score, score)

\* line 317 (mutant: one more pass of the loop)
LoopOverLate(iteration, max_iterations) == iteration > max_iterations + 1

\* line 317: range(max_iterations + 1) is used up
LoopOver(iteration, max_iterations) == iteration > max_iterations

\* line 336 (mutant: a valid result does not end the loop)
PassedNever(validation) == FALSE

\* line 336: if validation.valid
Passed(validation) == validation.valid

\* lines 360-365 (mutant: the response that failed last is returned)
AfterBreakCurrent(response, best_response) == response

\* lines 360-365: break, then return best_response
AfterBreak(response, best_response) == best_response

RECURSIVE RepairLoop(_, _, _, _, _, _, _, _, _, _)

\* lines 335-365: the rest of one pass, after the validator has answered
RepairStep(m, instruction, max_iterations, gen, iteration, response, best_response, best_score, validated, calls, validation) ==
    IF Passed(validation)
    THEN [response |-> response, validated |-> validated, calls |-> calls]
    ELSE IF iteration < max_iterations
         THEN IF gen[calls + 1].raises
              THEN [response |-> AfterBreak(response, best_response),
                    validated |-> validated, calls |-> calls + 1]
              ELSE RepairLoop(m, instruction, max_iterations, gen, iteration + 1,
                              gen[calls + 1], best_response, best_score, validated, calls + 1)
         ELSE RepairLoop(m, instruction, max_iterations, gen, iteration + 1,
                         response, best_response, best_score, validated, calls)

\* lines 330-333: the best response and its score after this validation
Tracked(m, instruction, max_iterations, gen, iteration, response, best_response, best_score, validated, calls, validation) ==
    RepairStep(m, instruction, max_iterations, gen, iteration, response,
               IF Better(validation.score, best_score) THEN response ELSE best_response,
               IF Better(validation.score, best_score) THEN validation.score ELSE best_score,
               Append(validated, [response |-> response, score |-> validation.score,
                                  valid |-> validation.valid]),
               calls, validation)

\* lines 317-365: the loop from `iteration` on.  validated lists, in order,
\* every response handed to the validator with its result; calls counts the
\* repair calls of call_llm.
RepairLoop(m, instruction, max_iterations, gen, iteration, response, best_response, best_score, validated, calls) ==
    IF LoopOver(iteration, max_iterations)
    THEN [response |-> best_response, validated |-> validated, calls |-> calls]
    ELSE Tracked(m, instruction, max_iterations, gen, iteration, response, best_response,
                 best_score, validated, calls,
                 validate(response.strokes, response.labels, response.anchors,
                          ExistingStrokes(m), instruction))

\* lines 297-365
validate_and_repair(m, instruction, response, max_iterations, gen) ==
    RepairLoop(m, instruction, max_iterations, gen, 0, response, response, FloatOf(0), <<>>, 0)

(***************************************************************************)
(* One turn: DrawingSystem.process_instruction (main_loop.py) and          *)
(* DrawingAgent.process_instruction (agent/langchain_agent.py).  A raw     *)
(* output is what the generator answered, before any conversion; where a  *)
(* call is retried, it is the output of the attempt that ends the call.    *)
(* The responses of the model carry none of the anchors _auto_continue,    *)
(* components_remaining, component_drawn, current_stage and total_stages.  *)
(***************************************************************************)
\* config.py, lines 27 and 28
MAX_STROKES_PER_STEP == 20

MAX_POINTS_PER_STROKE == 50

StopWords == {"stop", "quit", "exit", "done"}

confirmation_words == {"yes", "ok", "okay", "continue", "proceed", "go ahead"}

ExecutePlanInstruction == "execute the plan and draw all components"

ReadyMessage == "Ready for next instruction."

AllNumeric(strokes) == \A i \in DOMAIN strokes : NumericPoints(strokes[i])

\* LLMResponse.from_dict: float() of every coordinate raises on a value that
\* is no number; a missing message gets its default
from_dict(data) ==
    IF ~AllNumeric(data.strokes) THEN Raises
    ELSE [data EXCEPT !.assistant_message =
             IF @ = "" \/ @ = ReadyMessage
             THEN (IF <<"plan">> \in DOMAIN data.anchors THEN "Should I proceed?" ELSE ReadyMessage)
             ELSE @]

\* LLMWrapper.call_llm: the exception of the provider or of from_dict leaves
\* the call after the retries
call_llm(raw) == IF raw.raises THEN Raises ELSE from_dict(raw)

\* LLMWrapper.validate_response: TRUE when it raises ValueError
validate_response_raises(response, max_strokes, max_points_per_stroke) ==
    \/ Len(response.strokes) > max_strokes
    \/ \E i \in DOMAIN response.strokes : Len(response.strokes[i]) > max_points_per_stroke
    \/ ~AllNumeric(response.strokes)

\* CoordinateMapper.clamp_normalized (mutant: the upper bound is not applied)
ClampedBelowOnly(x, y) == <<Max2(0, x), Max2(0, y)>>

\* CoordinateMapper.clamp_normalized
clamp_normalized(x, y) == <<Max2(0, Min2(1000, x)), Max2(0, Min2(1000, y))>>

\* validate_and_clamp_coordinates: raised tells the ValueError of line 133
validate_and_clamp_coordinates(strokes) ==
    [raised |-> ~AllNumeric(strokes),
     strokes |-> [i \in DOMAIN strokes |->
                    [j \in DOMAIN strokes[i] |-> clamp_normalized(strokes[i][j][1], strokes[i][j][2])]]]

\* the end of a turn: the memory, the message, whether the message reports an
\* error, and the candidate the turn ended with (<<>> when it had none)
Turn(m, message, error, candidate) ==
    [mem |-> m, message |-> message, error |-> error, candidate |-> candidate]

ErrorMessage == "An error occurred. Please try again."

\* main_loop.py, lines 232-288: the clamped strokes enter the memory in the
\* state that PREVIEW_MODE gives them, then the anchors and the feature index
Committed(m, response, added) ==
    [update_features(update_anchors(added.mem, response.anchors), response.labels, added.ids)
        EXCEPT !.last_question = ""]

\* main_loop.py, lines 220-234; outside PREVIEW_MODE the plotter draws the
\* clamped strokes before they are committed (lines 226-229)
Clamped(m, PREVIEW_MODE, response, validated) ==
    IF validated.raised THEN Turn(m, ErrorMessage, TRUE, <<response>>)
    ELSE Turn(Committed(m, response,
                        add_strokes(m, validated.strokes, response.labels,
                                    IF PREVIEW_MODE THEN "preview" ELSE "confirmed")),
              response.assistant_message, FALSE, <<response>>)

\* main_loop.py, lines 215-288: the strokes of the response are checked,
\* clamped and committed
Commit(m, PREVIEW_MODE, response) ==
    IF validate_response_raises(response, MAX_STROKES_PER_STEP, MAX_POINTS_PER_STROKE)
    THEN Turn(m, ErrorMessage, TRUE, <<response>>)
    ELSE Clamped(m, PREVIEW_MODE, response, validate_and_clamp_coordinates(response.strokes))

\* main_loop.py, lines 149-288: the branches on the response that the repair
\* loop returned
Respond(m, PREVIEW_MODE, instruction, response) ==
    IF instruction # ExecutePlanInstruction /\ response.strokes = <<>>
       /\ <<"plan">> \in DOMAIN response.anchors
    THEN Turn([update_anchors(m, response.anchors) EXCEPT !.last_question = response.assistant_message],
              response.assistant_message, FALSE, <<response>>)
    ELSE IF response.strokes = <<>> /\ ~response.done
    THEN IF response.assistant_message = ReadyMessage
         THEN Turn(m, "I'll draw with reasonable defaults.", FALSE, <<response>>)
         ELSE Turn([m EXCEPT !.last_question = response.assistant_message],
                   response.assistant_message, FALSE, <<response>>)
    ELSE IF response.strokes = <<>>
    THEN Turn(m, response.assistant_message, FALSE, <<response>>)
    ELSE Commit(m, PREVIEW_MODE, response)

\* main_loop.py, lines 141-147: the response of the first call goes through
\* the repair loop when it has strokes
Generated(m, PREVIEW_MODE, instruction, outs, first) ==
    IF first.raises THEN Turn(m, ErrorMessage, TRUE, <<outs[1]>>)
    ELSE IF first.strokes = <<>> THEN Respond(m, PREVIEW_MODE, instruction, first)
    ELSE Respond(m, PREVIEW_MODE, instruction,
                 validate_and_repair(m, instruction, first, 1, <<call_llm(outs[2])>>).response)

\* main_loop.py, lines 116-295: the try block of the legacy path; build_prompt
\* calls get_state_summary
LegacyTry(m, PREVIEW_MODE, instruction, outs) ==
    IF SummaryRaises(m) THEN Turn(m, ErrorMessage, TRUE, <<>>)
    ELSE Generated(m, PREVIEW_MODE, instruction, outs, call_llm(outs[1]))

\* main_loop.py, lines 81-114: the commands handled before the generator is asked
legacy_process_instruction(m, PREVIEW_MODE, instruction, outs) ==
    IF instruction \in StopWords
    THEN Turn([m EXCEPT !.stop_flag = TRUE], "Stopped. Thank you!", FALSE, <<>>)
    ELSE IF m.stop_flag
    THEN Turn(m, "System is stopped.", FALSE, <<>>)
    ELSE IF instruction = "continue"
    THEN Turn([m EXCEPT !.stop_flag = FALSE], "Resumed.", FALSE, <<>>)
    ELSE IF instruction \in confirmation_words /\ <<"plan">> \notin DOMAIN m.anchors
    THEN Turn(m, "I'm ready.", FALSE, <<>>)
    ELSE LegacyTry(m, PREVIEW_MODE,
                   IF instruction \in confirmation_words THEN ExecutePlanInstruction ELSE instruction,
                   outs)

\* agent/langchain_memory.py, lines 33-37, after add_strokes has returned or
\* raised
AgentAdded(agent_output, added) ==
    IF added.raised THEN [mem |-> added.mem, raised |-> TRUE]
    ELSE [mem |-> update_anchors(update_features(added.mem, agent_output.labels, added.ids),
                                 agent_output.anchors),
          raised |-> FALSE]

\* agent/langchain_memory.py, lines 24-40: the strokes of the agent are added
\* as they are, in state confirmed; raised tells the exception that leaves
\* add_strokes
update_memory_from_agent(agent_output, m) ==
    IF agent_output.strokes # <<>>
    THEN AgentAdded(agent_output, add_strokes(m, agent_output.strokes, agent_output.labels, "confirmed"))
    ELSE [mem |-> update_anchors(m, agent_output.anchors), raised |-> FALSE]

\* agent/langchain_agent.py, lines 177-193
AgentUpdated(updated, out) ==
    IF updated.raised THEN Turn(updated.mem, ErrorMessage, TRUE, <<out>>)
    ELSE Turn(updated.mem, out.assistant_message, FALSE, <<out>>)

\* agent/langchain_agent.py, lines 108-193
langchain_process_instruction(m, instruction, out) ==
    IF instruction \in StopWords
    THEN Turn([m EXCEPT !.stop_flag = TRUE], "Stopped. Thank you!", FALSE, <<>>)
    ELSE IF m.stop_flag
    THEN Turn(m, "System is stopped.", FALSE, <<>>)
    ELSE IF instruction = "continue"
    THEN Turn([m EXCEPT !.stop_flag = FALSE], "Resumed.", FALSE, <<>>)
    ELSE IF instruction \in confirmation_words /\ <<"plan">> \notin DOMAIN m.anchors
    THEN Turn(m, "I'm ready.", FALSE, <<>>)
    ELSE IF SummaryRaises(m) THEN Turn(m, ErrorMessage, TRUE, <<>>)
    ELSE IF out.raises THEN Turn(m, ErrorMessage, TRUE, <<>>)
    ELSE AgentUpdated(update_memory_from_agent(out, m), out)

\* main_loop.py, lines 77-79
process_instruction(m, config, instruction, outs) ==
    IF config.use_langchain THEN langchain_process_instruction(m, instruction, outs[1])
    ELSE legacy_process_instruction(m, config.PREVIEW_MODE, instruction, outs)

(***************************************************************************)
(* Inputs of the memory operations.                                        *)
(***************************************************************************)
SquarePts == <<<<400, 400>>, <<600, 400>>, <<600, 600>>, <<400, 600>>, <<400, 400>>>>

LinePts == <<<<100, 200>>, <<300, 200>>>>

\* a stroke offered to add_strokes: its points, the label the caller gives it
\* and the form of the key that holds the label: "stroke_<i>" or "<i>" (line 52)
Item(points, label, form) == [points |-> points, label |-> label, form |-> form]

ItemPool == {Item(SquarePts, <<"square">>, "stroke_i"), Item(LinePts, <<"circle">>, "i"),
             Item(LinePts, None, "i"), Item(<<>>, <<"square", "big">>, "stroke_i")}

States == {"preview", "confirmed"}

Batches(pool) == UNION {[1..n -> pool] : n \in 1..MaxBatch}

PointsOf(batch) == [i \in DOMAIN batch |-> batch[i].points]

LabelKey(form, i) == IF form = "stroke_i" THEN <<"stroke", Str(i)>> ELSE <<Str(i)>>

\* the labels dict of a batch: an entry for every stroke that has a label
LabelsOf(batch) ==
    LET labelled == {i \in DOMAIN batch : batch[i].label # None}
    IN  [k \in {LabelKey(batch[i].form, i - 1) : i \in labelled} |->
            batch[(CHOOSE i \in labelled : LabelKey(batch[i].form, i - 1) = k)].label]

\* anchors handed to update_anchors: an explicit point under a name that
\* add_strokes derives too, and plan metadata
ExplicitAnchors ==
    [k \in {<<"square", "1", "center">>, <<"plan">>} |->
        IF k = <<"plan">> THEN Scalar(1) ELSE Point(100, 100)]

AnchorMaps == {ExplicitAnchors}

(***************************************************************************)
(* The operations of one DrawingMemory, called in any order.               *)
(***************************************************************************)
NoOp == [op |-> "init", ids |-> <<>>, count |-> 0, labels |-> <<>>]

Init ==
    /\ memory = DrawingMemory
    /\ issued = <<>>
    /\ last = NoOp
    /\ input = None

AddStrokes ==
    \E batch \in Batches(ItemPool), state \in States :
        /\ memory.next_stroke_id + Len(batch) <= MaxId
        /\ LET r == add_strokes(memory, PointsOf(batch), LabelsOf(batch), state)
           IN  /\ memory' = r.mem
               /\ issued' = issued \o r.ids
               /\ last' = [op |-> "add_strokes", ids |-> r.ids, count |-> Len(batch),
                            labels |-> [i \in DOMAIN batch |-> batch[i].label]]
               /\ UNCHANGED input

UpdateAnchors ==
    \E a \in AnchorMaps :
        /\ memory' = update_anchors(memory, a)
        /\ last' = [op |-> "update_anchors", ids |-> <<>>, count |-> 0, labels |-> <<>>]
        /\ UNCHANGED <<issued, input>>

ConfirmPreview ==
    LET r == confirm_preview_strokes(memory)
    IN  /\ memory' = r.mem
        /\ last' = [op |-> "confirm_preview_strokes", ids |-> <<>>, count |-> r.count, labels |-> <<>>]
        /\ UNCHANGED <<issued, input>>

RejectPreview ==
    LET r == reject_preview_strokes(memory)
    IN  /\ memory' = r.mem
        /\ last' = [op |-> "reject_preview_strokes", ids |-> <<>>, count |-> r.count, labels |-> <<>>]
        /\ UNCHANGED <<issued, input>>

Undo ==
    \E count \in (0 - 1)..MaxUndo :
        /\ memory' = undo_last_strokes(memory, count)
        /\ last' = [op |-> "undo_last_strokes", ids |-> <<>>, count |-> count, labels |-> <<>>]
        /\ UNCHANGED <<issued, input>>

Next == AddStrokes \/ UpdateAnchors \/ ConfirmPreview \/ RejectPreview \/ Undo

Spec == Init /\ [][Next]_vars

\* a restart of the host: the memory is written with to_dict and read back
\* with from_dict; offered while fewer than MaxId ids were handed out
Restart ==
    /\ Len(issued) < MaxId
    /\ memory' = memory_from_dict(to_dict(memory))
    /\ last' = [op |-> "from_dict", ids |-> <<>>, count |-> 0, labels |-> <<>>]
    /\ UNCHANGED <<issued, input>>

NextPersist == AddStrokes \/ Undo \/ Restart

SpecPersist == Init /\ [][NextPersist]_vars

\* a commit as the callers make it (main_loop.py, lines 232-234;
\* agent/langchain_memory.py, lines 33-37): add_strokes, then update_features
\* with the labels of the call and the ids add_strokes returned
CommitStrokes ==
    \E batch \in Batches(ItemPool), state \in States :
        /\ memory.next_stroke_id + Len(batch) <= MaxId
        /\ \E r \in {add_strokes(memory, PointsOf(batch), LabelsOf(batch), state)} :
               /\ memory' = update_features(r.mem, LabelsOf(batch), r.ids)
               /\ issued' = issued \o r.ids
               /\ last' = [op |-> "commit", ids |-> r.ids, count |-> Len(batch),
                            labels |-> [i \in DOMAIN batch |-> batch[i].label]]
               /\ UNCHANGED input

NextCommit == CommitStrokes \/ Undo \/ RejectPreview

SpecCommit == Init /\ [][NextCommit]_vars

\* add_strokes alone, in one call or in several
NextAdd == AddStrokes

SpecAdd == Init /\ [][NextAdd]_vars

(***************************************************************************)
(* SemanticValidator.validate on one candidate: Init draws the candidate,  *)
(* the existing strokes and the instruction, Validate applies the          *)
(* validator.                                                              *)
(***************************************************************************)
MaxStrokes == 4         \* strokes of a candidate handed to validate

ShiftedPts == <<<<500, 400>>, <<700, 600>>>>

TinyPts == <<<<0, 0>>, <<20, 20>>>>

HugePts == <<<<0, 0>>, <<1000, 1000>>>>

\* right of the square, 0.005 into the X range of the shifted square
NearPts == <<<<695, 400>>, <<895, 600>>>>

StrokePool == {SquarePts, ShiftedPts, LinePts, TinyPts, HugePts, NearPts}

CandidateStrokes == UNION {[1..n -> StrokePool] : n \in 1..MaxStrokes}

EarLabels ==
    [k \in {<<"stroke", "0">>, <<"stroke", "1">>} |->
        IF k = <<"stroke", "0">> THEN <<"ear", "left">> ELSE <<"ear", "right">>]

EyeLabels ==
    [k \in {<<"0">>, <<"1">>, <<"2">>} |->
        IF k = <<"2">> THEN <<"nose">> ELSE <<"eye">>]

\* a third label with the base token of the ears
EarTrioLabels ==
    [k \in {<<"stroke", "0">>, <<"stroke", "1">>, <<"stroke", "2">>} |->
        IF k = <<"stroke", "2">> THEN <<"ear", "top">> ELSE EarLabels[k]]

LabelDicts == {EmptyDict, EarLabels, EyeLabels, EarTrioLabels}

SquareLabels == [k \in {<<"stroke", "0">>} |-> <<"square">>]

\* a memory that holds the square, drawn by an earlier turn
MemoryWithSquare == add_strokes(DrawingMemory, <<SquarePts>>, SquareLabels, "confirmed").mem

ValidatorInstructions == {PlainInstruction, BesideInstruction, FarInstruction}

InitVal ==
    /\ memory \in {DrawingMemory, MemoryWithSquare}
    /\ issued = <<>>
    /\ last = NoOp
    /\ input \in [strokes : CandidateStrokes, labels : LabelDicts, instruction : ValidatorInstructions]

Validate ==
    /\ last.op = "init"
    /\ last' = [op |-> "validate",
                result |-> validate(input.strokes, input.labels, EmptyDict,
                                    ExistingStrokes(memory), input.instruction)]
    /\ UNCHANGED <<memory, issued, input>>

NextVal == Validate

SpecVal == InitVal /\ [][NextVal]_vars

(***************************************************************************)
(* _validate_and_repair on one first response and one generator: Init      *)
(* draws them, ValidateAndRepair applies the loop.                         *)
(***************************************************************************)
MaxIterations == 2      \* largest max_iterations handed to _validate_and_repair

Drawn(strokes) == LLMResponse(strokes, EmptyDict, EmptyDict, "Done.", TRUE)

\* valid, score 1.0
CleanResponse == Drawn(<<SquarePts>>)

\* one overlap error: score 0.7, invalid
OverlapResponse == Drawn(<<SquarePts, ShiftedPts>>)

OverlapResponse2 == Drawn(<<ShiftedPts, SquarePts>>)

\* four size warnings: score 0.6000000000000001, invalid
LinesResponse == Drawn(<<LinePts, LinePts, LinePts, LinePts>>)

\* six overlap errors: score 0.0, invalid
ZeroResponse == Drawn(<<SquarePts, ShiftedPts, SquarePts, ShiftedPts>>)

ResponsePool == {CleanResponse, OverlapResponse, OverlapResponse2, LinesResponse, ZeroResponse}

Generators == [1..MaxIterations -> ResponsePool \cup {Raises}]

InitRepair ==
    /\ memory = DrawingMemory
    /\ issued = <<>>
    /\ last = NoOp
    /\ input \in [response : ResponsePool, max_iterations : 0..MaxIterations, gen : Generators]

ValidateAndRepair ==
    /\ last.op = "init"
    /\ last' = [op |-> "validate_and_repair",
                result |-> validate_and_repair(memory, PlainInstruction, input.response,
                                               input.max_iterations, input.gen)]
    /\ UNCHANGED <<memory, issued, input>>

NextRepair == ValidateAndRepair

SpecRepair == InitRepair /\ [][NextRepair]_vars

(***************************************************************************)
(* The system: turns of process_instruction on either path, and the undo,  *)
(* confirm and reject commands of the hosts (ui/cli.py, webapp/app.py).    *)
(***************************************************************************)
Answer(strokes, anchors, labels, assistant_message, done) ==
    LLMResponse(strokes, anchors, labels, assistant_message, done)

RawSquare == Answer(<<SquarePts>>, EmptyDict, SquareLabels, "Drew a square.", TRUE)

\* a stroke that leaves the unit square: (1.5, 0.2) and (0.3, -0.4)
OutsidePts == <<<<1500, 200>>, <<300, 0 - 400>>>>

RawOutside == Answer(<<OutsidePts>>, EmptyDict, EmptyDict, "Drew a line.", TRUE)

\* a coordinate that is no number, as in [["a", 0.5]]
BadPts == <<<<NotANumber, 500>>>>

RawBad == Answer(<<BadPts>>, EmptyDict, SquareLabels, "Drew a square.", TRUE)

RawBadUnlabelled == Answer(<<BadPts>>, EmptyDict, EmptyDict, "Drew a dot.", TRUE)

\* a stroke of MAX_POINTS_PER_STROKE + 1 points
LongPts == [i \in 1..(MAX_POINTS_PER_STROKE + 1) |-> <<20 * i, 500>>]

RawLong == Answer(<<LongPts>>, EmptyDict, EmptyDict, "Drew a line.", TRUE)

RawOverlap == Answer(<<SquarePts, ShiftedPts>>, EmptyDict, EmptyDict, "Drew two boxes.", TRUE)

PlanAnchors == [k \in {<<"plan">>} |-> Scalar(1)]

RawPlan == Answer(<<>>, PlanAnchors, EmptyDict, "", FALSE)

RawQuestion == Answer(<<>>, EmptyDict, EmptyDict, "What size should it be?", FALSE)

FirstOutputs == {RawSquare, RawOutside, RawBad, RawBadUnlabelled, RawLong, RawOverlap,
                 RawPlan, RawQuestion, Raises}

RepairOutputs == {RawSquare, Raises}

Instructions == {PlainInstruction, StopInstruction, ContinueInstruction, YesInstruction}

InitSys ==
    /\ memory = DrawingMemory
    /\ issued = <<>>
    /\ last = NoOp
    /\ input \in [use_langchain : BOOLEAN, PREVIEW_MODE : BOOLEAN]

ProcessInstruction ==
    \E instruction \in Instructions, first \in FirstOutputs, repair \in RepairOutputs :
        \E turn \in {process_instruction(memory, input, instruction, <<first, repair>>)} :
            /\ memory.next_stroke_id < MaxId
            /\ turn.mem.next_stroke_id <= MaxId
            /\ memory' = turn.mem
            /\ last' = [op |-> "process_instruction", instruction |-> instruction,
                        error |-> turn.error, candidate |-> turn.candidate]
            /\ UNCHANGED <<issued, input>>

NextSys == ProcessInstruction \/ ConfirmPreview \/ RejectPreview \/ Undo

SpecSys == InitSys /\ [][NextSys]_vars

(***************************************************************************)
(* _execute_strokes_chunked (main_loop.py) on one list of strokes, with     *)
(* PlotterDriver.execute_strokes (execution/plotter_driver.py) drawing the *)
(* chunks, while another thread (a request of the web host that processes  *)
(* "stop") may set the stop flag between any two steps.  Every read of the *)
(* flag is a step of its own.                                              *)
(***************************************************************************)
MaxExec == 4        \* strokes handed to _execute_strokes_chunked

\* config.py, line 42
CHUNK_SIZE == 2

\* main_loop.py, lines 377-380: strokes[i:i + CHUNK_SIZE] for i = 0, CHUNK_SIZE, ...
Chunks(strokes) ==
    [c \in 1..((Len(strokes) + CHUNK_SIZE - 1) \div CHUNK_SIZE) |->
        SubSeq(strokes, (c - 1) * CHUNK_SIZE + 1, Min2(c * CHUNK_SIZE, Len(strokes)))]

\* memory.py, lines 265-267
set_stop_flag(m, value) == [m EXCEPT !.stop_flag = value]

\* main_loop.py, line 387 (mutant: the loop does not look at the flag)
StopNeverRequested(m) == FALSE

\* main_loop.py, line 387, and the lambda of line 395
StopRequested(m) == m.stop_flag

\* the position of the executing thread: pc is "check" at the head of the
\* loop over the chunks, "call" after the flag was read clear, "start",
\* "draw", "convert" and "plot" inside execute_strokes, "done" after the
\* return; handed lists the chunks given to the plotter, drawn the strokes
\* it drew, parked tells plotter.stop()
Execution(pc, chunk_idx, stroke_idx, handed, drawn, parked) ==
    [op |-> "execute_strokes_chunked", pc |-> pc, chunk_idx |-> chunk_idx,
     stroke_idx |-> stroke_idx, handed |-> handed, drawn |-> drawn, parked |-> parked]

ExecutedStrokes == UNION {[1..n -> {SquarePts, LinePts}] : n \in 0..MaxExec}

InitExec ==
    /\ memory = DrawingMemory
    /\ issued = <<>>
    /\ input \in [strokes : ExecutedStrokes, simulation : BOOLEAN]
    /\ last = Execution(IF input.strokes = <<>> THEN "done" ELSE "check", 1, 1, <<>>, <<>>, FALSE)

\* main_loop.py, lines 385-390: the head of the loop
CheckStopFlag ==
    /\ last.op = "execute_strokes_chunked" /\ last.pc = "check"
    /\ last' = IF last.chunk_idx > Len(Chunks(input.strokes)) THEN [last EXCEPT !.pc = "done"]
               ELSE IF StopRequested(memory) THEN [last EXCEPT !.pc = "done", !.parked = TRUE]
               ELSE [last EXCEPT !.pc = "call"]
    /\ UNCHANGED <<memory, issued, input>>

\* main_loop.py, line 395: the chunk is handed to the plotter
ExecuteChunk ==
    /\ last.op = "execute_strokes_chunked" /\ last.pc = "call"
    /\ last' = [last EXCEPT !.pc = "start",
                            !.handed = Append(@, Chunks(input.strokes)[last.chunk_idx])]
    /\ UNCHANGED <<memory, issued, input>>

\* plotter_driver.py, lines 235-237: the flag is read before the first stroke
StartStrokes ==
    /\ last.op = "execute_strokes_chunked" /\ last.pc = "start"
    /\ last' = IF StopRequested(memory) THEN [last EXCEPT !.pc = "check", !.chunk_idx = @ + 1]
               ELSE [last EXCEPT !.pc = IF input.simulation THEN "draw" ELSE "convert",
                                 !.stroke_idx = 1]
    /\ UNCHANGED <<memory, issued, input>>

\* plotter_driver.py, lines 241-246: in simulation the flag is read before
\* every stroke
DrawStroke ==
    /\ last.op = "execute_strokes_chunked" /\ last.pc = "draw"
    /\ last' = IF last.stroke_idx > Len(Chunks(input.strokes)[last.chunk_idx]) \/ StopRequested(memory)
               THEN [last EXCEPT !.pc = "check", !.chunk_idx = @ + 1]
               ELSE [last EXCEPT !.stroke_idx = @ + 1,
                                 !.drawn = Append(@, Chunks(input.strokes)[last.chunk_idx][last.stroke_idx])]
    /\ UNCHANGED <<memory, issued, input>>

\* plotter_driver.py, lines 250-257: on the hardware the flag is read while
\* the strokes are converted
ConvertStroke ==
    /\ last.op = "execute_strokes_chunked" /\ last.pc = "convert"
    /\ last' = IF last.stroke_idx > Len(Chunks(input.strokes)[last.chunk_idx])
               THEN [last EXCEPT !.pc = "plot"]
               ELSE IF StopRequested(memory) THEN [last EXCEPT !.pc = "check", !.chunk_idx = @ + 1]
               ELSE [last EXCEPT !.stroke_idx = @ + 1]
    /\ UNCHANGED <<memory, issued, input>>

\* plotter_driver.py, lines 261-267: plot_lines draws the whole chunk
PlotLines ==
    /\ last.op = "execute_strokes_chunked" /\ last.pc = "plot"
    /\ last' = [last EXCEPT !.pc = "check", !.chunk_idx = @ + 1,
                            !.drawn = @ \o Chunks(input.strokes)[last.chunk_idx]]
    /\ UNCHANGED <<memory, issued, input>>

\* main_loop.py, line 84, in another thread
SetStopFlag ==
    /\ last.op = "execute_strokes_chunked"
    /\ ~memory.stop_flag
    /\ memory' = set_stop_flag(memory, TRUE)
    /\ UNCHANGED <<issued, last, input>>

NextExec ==
    \/ CheckStopFlag \/ ExecuteChunk \/ StartStrokes \/ DrawStroke
    \/ ConvertStroke \/ PlotLines \/ SetStopFlag

SpecExec == InitExec /\ [][NextExec]_vars

(***************************************************************************)
(* The web host (webapp/app.py): two /api/process requests served by two   *)
(* threads on the one DrawingSystem of the module, each with a candidate   *)
(* of one stroke that its generator call returned.  The route takes no     *)
(* lock, so the statements of add_strokes (memory.py, lines 41-77) of the  *)
(* two threads run in any order; t.pc is the statement thread t is at.     *)
(***************************************************************************)
Requests == {1, 2}

WebItems == {Item(SquarePts, <<"square">>, "stroke_i"), Item(LinePts, None, "i")}

\* the local variables of add_strokes in one thread
Locals(pc, shape_counts, stroke_id, label, loaded) ==
    [pc |-> pc, shape_counts |-> shape_counts, stroke_id |-> stroke_id, label |-> label,
     loaded |-> loaded]

InitWeb ==
    /\ memory = DrawingMemory
    /\ issued = <<>>
    /\ input \in [requests : [Requests -> WebItems], state : States]
    /\ last = [op |-> "api_process",
               threads |-> [t \in Requests |-> Locals("count", EmptyDict, 0, None, 0)]]

\* the step of thread t that leads to the locals l and the memory m
WebStep(t, l, m) ==
    /\ memory' = m
    /\ last' = [last EXCEPT !.threads[t] = l]
    /\ UNCHANGED <<issued, input>>

\* memory.py, lines 41-47
CountShapes ==
    \E t \in Requests :
        /\ last.op = "api_process" /\ last.threads[t].pc = "count"
        /\ WebStep(t, [last.threads[t] EXCEPT !.pc = "read",
                                              !.shape_counts = ShapeCounts(memory.strokes_history)],
                   memory)

\* memory.py, lines 50-64: the id and the numbered label of the stroke
ReadStrokeId ==
    \E t \in Requests :
        /\ last.op = "api_process" /\ last.threads[t].pc = "read"
        /\ WebStep(t, [last.threads[t] EXCEPT
                          !.pc = "append", !.stroke_id = NewStrokeId(memory),
                          !.label = IF input.requests[t].label # None
                                    THEN NumberedLabel(last.threads[t].shape_counts,
                                                       input.requests[t].label)
                                    ELSE None],
                   memory)

\* memory.py, lines 66-68
AppendStroke ==
    \E t \in Requests :
        /\ last.op = "api_process" /\ last.threads[t].pc = "append"
        /\ WebStep(t, [last.threads[t] EXCEPT !.pc = "load"],
                   [memory EXCEPT !.strokes_history =
                       Append(@, Stroke(last.threads[t].stroke_id, input.requests[t].points,
                                        last.threads[t].label, input.state))])

\* memory.py, line 69: self._next_stroke_id += 1 reads the counter ...
LoadNextId ==
    \E t \in Requests :
        /\ last.op = "api_process" /\ last.threads[t].pc = "load"
        /\ WebStep(t, [last.threads[t] EXCEPT !.pc = "store", !.loaded = memory.next_stroke_id],
                   memory)

\* ... and writes it
StoreNextId ==
    \E t \in Requests :
        /\ last.op = "api_process" /\ last.threads[t].pc = "store"
        /\ WebStep(t, [last.threads[t] EXCEPT !.pc = "anchors"],
                   [memory EXCEPT !.next_stroke_id = last.threads[t].loaded + 1])

\* memory.py, lines 71-77: the side anchors and the last position
FinishStroke ==
    \E t \in Requests :
        /\ last.op = "api_process" /\ last.threads[t].pc = "anchors"
        /\ LET points == input.requests[t].points
               label == last.threads[t].label
               m1 == IF points # <<>> /\ label # None
                     THEN auto_generate_side_anchors(memory,
                              Stroke(last.threads[t].stroke_id, points, label, input.state), label)
                     ELSE memory
           IN  WebStep(t, [last.threads[t] EXCEPT !.pc = "done"],
                       IF points # <<>> THEN [m1 EXCEPT !.last_position = points[Len(points)]]
                       ELSE m1)

NextWeb ==
    \/ CountShapes \/ ReadStrokeId \/ AppendStroke
    \/ LoadNextId \/ StoreNextId \/ FinishStroke

SpecWeb == InitWeb /\ [][NextWeb]_vars

(***************************************************************************)
(* Claims about Canvas Memory.                                             *)
(***************************************************************************)
StrictlyIncreasing(s) == \A i, j \in DOMAIN s : i < j => s[i] < s[j]

HistoryIds == [i \in DOMAIN memory.strokes_history |-> memory.strokes_history[i].id]

IdSet(s) == {s[i] : i \in DOMAIN s}

\* C1: after any sequence of add_strokes, confirm_preview_strokes,
\* reject_preview_strokes and undo_last_strokes the ids of strokes_history are
\* strictly increasing in list order, and the ids returned by add_strokes
\* (issued, in the order they were returned) are strictly increasing, so an id
\* is never handed out again, also after its stroke was removed.
C1_IdsIncreasingNeverReused ==
    StrictlyIncreasing(HistoryIds) /\ StrictlyIncreasing(issued)

\* C1 witness: add_strokes has just returned an id although an earlier id
\* belongs to a stroke that undo or rejection removed.
C1_Witness ==
    /\ last.op = "add_strokes"
    /\ \E k \in DOMAIN issued : issued[k] \notin IdSet(HistoryIds) /\ issued[k] < last.ids[1]

\* the strokes the latest add_strokes call appended: the tail of the history
NewIndex(k) == Len(memory.strokes_history) + k

\* the number of strokes before position i of a history that carry base label b
EarlierWithBase(history, i, b) ==
    Cardinality({j \in 1..(i - 1) : history[j].label # None /\ history[j].label[1] = b})

\* C2: in a sequence of add_strokes calls the stroke added with base label b
\* is named b_<k+1>, where k strokes with base label b were added before it,
\* in the same call or in earlier calls: the first is b_1 and each later one
\* has the suffix incremented by one; unlabelled strokes stay unlabelled.
C2_LabelNumbering ==
    [][last'.op = "add_strokes" =>
        \A k \in 1..last'.count :
            LET given == last'.labels[k]
                stroke == memory'.strokes_history[NewIndex(k)]
            IN  IF given = None THEN stroke.label = None
                ELSE stroke.label =
                        <<given[1], Str(EarlierWithBase(memory'.strokes_history, NewIndex(k), given[1]) + 1)>>]_vars

HistoryLabels == [i \in DOMAIN memory.strokes_history |-> memory.strokes_history[i].label]

\* C2 witness: square, circle, square were added, the last two in one call,
\* and are named square_1, circle_1, square_2.
C2_Witness ==
    /\ last.op = "add_strokes" /\ last.count = 2
    /\ last.labels = <<<<"circle">>, <<"square">>>>
    /\ HistoryLabels = <<<<"square", "1">>, <<"circle", "1">>, <<"square", "2">>>>

\* C9: add_strokes never changes the value of an anchor name that is already
\* in the anchor store.
C9_AddStrokesKeepsAnchors ==
    [][last'.op = "add_strokes" =>
        \A name \in DOMAIN memory.anchors :
            name \in DOMAIN memory'.anchors /\ memory'.anchors[name] = memory.anchors[name]]_vars

\* C9 witness: square_1 was added while square_1_center held the explicit
\* point (0.1, 0.1): the point is kept, the other sides were derived.
C9_Witness ==
    /\ last.op = "add_strokes"
    /\ \E i \in DOMAIN memory.strokes_history :
          /\ memory.strokes_history[i].label = <<"square", "1">>
          /\ memory.strokes_history[i].points = SquarePts
          /\ memory.strokes_history[i].id = last.ids[1]
    /\ <<"square", "1", "center">> \in DOMAIN memory.anchors
    /\ memory.anchors[<<"square", "1", "center">>] = Point(100, 100)
    /\ <<"square", "1", "top">> \in DOMAIN memory.anchors

\* the bounding box of a non-empty point sequence, from its coordinate sets
BoxOf(points) ==
    LET xs == {points[i][1] : i \in DOMAIN points}
        ys == {points[i][2] : i \in DOMAIN points}
    IN  [min_x |-> CHOOSE v \in xs : \A w \in xs : v <= w,
         max_x |-> CHOOSE v \in xs : \A w \in xs : v >= w,
         min_y |-> CHOOSE v \in ys : \A w \in ys : v <= w,
         max_y |-> CHOOSE v \in ys : \A w \in ys : v >= w]

\* twice the anchor of a side, so that the midpoint needs no division
TwiceExpected(b, side) ==
    CASE side = <<"center">> -> <<b.min_x + b.max_x, b.min_y + b.max_y>>
      [] side = <<"top">> -> <<b.min_x + b.max_x, 2 * b.max_y>>
      [] side = <<"bottom">> -> <<b.min_x + b.max_x, 2 * b.min_y>>
      [] side = <<"left">> -> <<2 * b.min_x, b.min_y + b.max_y>>
      [] side = <<"right">> -> <<2 * b.max_x, b.min_y + b.max_y>>
      [] side = <<"top", "left">> -> <<2 * b.min_x, 2 * b.max_y>>
      [] side = <<"top", "right">> -> <<2 * b.max_x, 2 * b.max_y>>
      [] side = <<"bottom", "left">> -> <<2 * b.min_x, 2 * b.min_y>>
      [] side = <<"bottom", "right">> -> <<2 * b.max_x, 2 * b.min_y>>

IsAnchorAt(anchors, name, twice) ==
    /\ name \in DOMAIN anchors
    /\ anchors[name].kind = "point"
    /\ <<2 * anchors[name].x, 2 * anchors[name].y>> = twice

\* C10: add_strokes of a labelled stroke with at least one point, into a
\* memory that holds none of the nine names <label>_<n>_<side>, creates all
\* nine from the bounding box of the stroke (center = midpoint, top =
\* (center_x, max_y), ...); the square (0.4,0.4)-(0.6,0.6) labelled square
\* yields square_1_center = (0.5,0.5) and square_1_top = (0.5,0.6).
C10_DerivedAnchors ==
    [][last'.op = "add_strokes" =>
        \A k \in 1..last'.count :
            LET stroke == memory'.strokes_history[NewIndex(k)]
            IN  (/\ stroke.label # None
                 /\ stroke.points # <<>>
                 /\ \A side \in SideNames : stroke.label \o side \notin DOMAIN memory.anchors)
                => /\ \A side \in SideNames :
                        IsAnchorAt(memory'.anchors, stroke.label \o side,
                                   TwiceExpected(BoxOf(stroke.points), side))
                   /\ (stroke.label = <<"square", "1">> /\ stroke.points = SquarePts)
                        => /\ memory'.anchors[<<"square", "1", "center">>] = Point(500, 500)
                           /\ memory'.anchors[<<"square", "1", "top">>] = Point(500, 600)]_vars

\* C10 witness: the square was added as square_1 and its nine anchors were
\* derived.
C10_Witness ==
    /\ last.op = "add_strokes"
    /\ \E i \in DOMAIN memory.strokes_history :
          /\ memory.strokes_history[i].label = <<"square", "1">>
          /\ memory.strokes_history[i].points = SquarePts
          /\ memory.strokes_history[i].id = last.ids[1]
    /\ <<"square", "1", "center">> \in DOMAIN memory.anchors
    /\ memory.anchors[<<"square", "1", "center">>] = Point(500, 500)
    /\ memory.anchors[<<"square", "1", "top">>] = Point(500, 600)

(***************************************************************************)
(* The stroke operations of one DrawingMemory without update_anchors: the  *)
(* anchors are the ones add_strokes derives.  AddElsewhere adds a square   *)
(* at another place than the square of AddStrokes.                         *)
(***************************************************************************)
AddElsewhere ==
    \E state \in States :
        /\ memory.next_stroke_id + 1 <= MaxId
        /\ \E r \in {add_strokes(memory, <<ShiftedPts>>, SquareLabels, state)} :
               /\ memory' = r.mem
               /\ issued' = issued \o r.ids
               /\ last' = [op |-> "add_strokes", ids |-> r.ids, count |-> 1,
                            labels |-> <<<<"square">>>>]
               /\ UNCHANGED input

NextStrokes == AddStrokes \/ AddElsewhere \/ Undo \/ ConfirmPreview \/ RejectPreview

SpecStrokes == Init /\ [][NextStrokes]_vars


(***************************************************************************)
(* Drawing and confirming under the stop flag.  The turns of               *)
(* process_instruction on the path of main_loop.py draw and commit, the    *)
(* web handler confirm_preview draws the preview strokes and confirms      *)
(* them.  last.handed collects the ids of the strokes whose chunk          *)
(* _execute_strokes_chunked gave to the plotter.  Another request of the   *)
(* web host can set the flag while the chunks are executed: handed_chunks  *)
(* is the number of chunks that pass the check of line 387 before it does. *)
(***************************************************************************)
Plotted(op, handed) == [op |-> op, handed |-> handed]

\* main_loop.py, lines 385-395: the chunks that are handed to the plotter
\* when the flag is seen set at the check after handed_chunks chunks
HandedStrokes(m, strokes, handed_chunks) ==
    IF StopRequested(m) THEN 0 ELSE Min2(handed_chunks * CHUNK_SIZE, Len(strokes))

\* the ids of the first n strokes that follow position k of a history
IdsAfter(history, k, n) == {history[k + i].id : i \in 1..n}

InitPlot ==
    /\ memory = DrawingMemory
    /\ issued = <<>>
    /\ last = Plotted("init", {})
    /\ input \in [PREVIEW_MODE : BOOLEAN]

\* main_loop.py, lines 83-86
StopTurn ==
    /\ ~memory.stop_flag
    /\ memory' = set_stop_flag(memory, TRUE)
    /\ last' = Plotted("stop", last.handed)
    /\ UNCHANGED <<issued, input>>

\* main_loop.py, lines 89-90 and 215-234: a turn whose candidate has strokes;
\* outside PREVIEW_MODE they are executed in chunks, then committed
DrawTurn ==
    \E strokes \in ExecutedStrokes :
        \E handed_chunks \in 0..Len(Chunks(strokes)) :
            /\ strokes # <<>>
            /\ memory.next_stroke_id + Len(strokes) <= MaxId
            /\ ~StopRequested(memory)
            /\ input.PREVIEW_MODE => handed_chunks = Len(Chunks(strokes))
            /\ \E turn \in {Commit(set_stop_flag(memory, handed_chunks < Len(Chunks(strokes))),
                                    input.PREVIEW_MODE, Drawn(strokes))} :
                   /\ memory' = turn.mem
                   /\ last' = Plotted("process_instruction",
                                      last.handed \cup
                                        (IF input.PREVIEW_MODE THEN {}
                                         ELSE IdsAfter(turn.mem.strokes_history, Len(memory.strokes_history),
                                                       HandedStrokes(memory, strokes, handed_chunks))))
            /\ UNCHANGED <<issued, input>>

\* webapp/app.py, lines 167-213: the preview strokes are executed in chunks,
\* then confirm_preview_strokes marks them confirmed
WebConfirm ==
    \E preview \in {SelectSeq(memory.strokes_history, LAMBDA st : st.state = "preview")} :
        \E handed_chunks \in 0..Len(Chunks(preview)) :
            /\ preview # <<>>
            /\ memory' = confirm_preview_strokes(
                             set_stop_flag(memory, memory.stop_flag
                                                   \/ handed_chunks < Len(Chunks(preview)))).mem
            /\ last' = Plotted("confirm_preview",
                               last.handed \cup IdsAfter(preview, 0,
                                                         HandedStrokes(memory, preview, handed_chunks)))
            /\ UNCHANGED <<issued, input>>

NextPlot == StopTurn \/ DrawTurn \/ WebConfirm

SpecPlot == InitPlot /\ [][NextPlot]_vars


(***************************************************************************)
(* CoordinateMapper.clamp_normalized on one point: Init draws the point    *)
(* from values below, inside, on the edges of and above the unit range,    *)
(* Clamp applies the function once and once more to its own result.        *)
(***************************************************************************)
ClampCoords == {0 - 2000, 0 - 500, 0 - 1, 0, 1, 250, 500, 999, 1000, 1001, 1500, 3000}

InitClamp ==
    /\ memory = DrawingMemory
    /\ issued = <<>>
    /\ last = NoOp
    /\ input \in [x : ClampCoords, y : ClampCoords]

Clamp ==
    /\ last.op = "init"
    /\ \E once \in {clamp_normalized(input.x, input.y)} :
           last' = [op |-> "clamp", once |-> once,
                    twice |-> clamp_normalized(once[1], once[2])]
    /\ UNCHANGED <<memory, issued, input>>

NextClamp == Clamp

SpecClamp == InitClamp /\ [][NextClamp]_vars


(***************************************************************************)
(* The two box functions of the validator on a pair of boxes: Init draws   *)
(* the boxes from a grid of corners (degenerate, touching, nested and      *)
(* disjoint boxes included), ComputeBoxes applies the functions.           *)
(***************************************************************************)
GridCoords == {0, 300, 600, 1000}

GridBoxes ==
    {from_points(<<<<x1, y1>>, <<x2, y2>>>>) : x1, y1, x2, y2 \in GridCoords}

InitBox ==
    /\ memory = DrawingMemory
    /\ issued = <<>>
    /\ last = NoOp
    /\ input \in [a : GridBoxes, b : GridBoxes]

ComputeBoxes ==
    /\ last.op = "init"
    /\ last' = [op |-> "boxes",
                overlap_ratio |-> compute_overlap_ratio(input.a, input.b),
                distance_squared |-> compute_distance_squared(input.a, input.b)]
    /\ UNCHANGED <<memory, issued, input>>

NextBox == ComputeBoxes

SpecBox == InitBox /\ [][NextBox]_vars


(***************************************************************************)
(* Claims about the Semantic Validator.                                    *)
(***************************************************************************)
ErrorCount(issues) == Cardinality({i \in DOMAIN issues : issues[i].severity = "error"})

WarningCount(issues) == Cardinality({i \in DOMAIN issues : issues[i].severity = "warning"})

Validated == last.op = "validate" /\ input.strokes # <<>>

\* C3: for every non-empty candidate validate returns valid = true exactly
\* when the score is at least 0.7 and no issue has severity error; so a result
\* with an error is invalid and a valid result has no error.
C3_ValidIffScoreAndNoErrors ==
    Validated =>
        /\ last.result.valid <=> (~FloatLess(last.result.score, FloatOf(700)) /\ ErrorCount(last.result.issues) = 0)
        /\ ErrorCount(last.result.issues) > 0 => ~last.result.valid
        /\ last.result.valid => ErrorCount(last.result.issues) = 0

\* C3 witness: a candidate with exactly one error and no warning has the
\* score 0.7, which reaches the threshold, and is invalid.
C3_Witness ==
    /\ Validated
    /\ last.result.score = FloatOf(700)
    /\ ErrorCount(last.result.issues) = 1
    /\ ~last.result.valid

Repaired == last.op = "validate_and_repair"

\* the responses the generator handed out in the repair calls that were made
Regenerated == {input.gen[k] : k \in 1..last.result.calls}

Exhausted ==
    /\ Repaired
    /\ Len(last.result.validated) = input.max_iterations + 1
    /\ \A k \in DOMAIN last.result.validated : ~last.result.validated[k].valid

HighestScore(validated) ==
    CHOOSE v \in {validated[k].score : k \in DOMAIN validated} :
        \A k \in DOMAIN validated : ~FloatLess(v, validated[k].score)

FirstWithScore(validated, score) ==
    CHOOSE k \in DOMAIN validated :
        /\ validated[k].score = score
        /\ \A j \in 1..(k - 1) : validated[j].score # score

\* C6: when every attempt is invalid and the attempts are used up, the
\* returned response is the validated candidate of highest score, and among
\* the candidates of that score the one validated first.
C6_BestCandidateEarliestOnTies ==
    Exhausted =>
        last.result.response =
            last.result.validated[FirstWithScore(last.result.validated,
                                                 HighestScore(last.result.validated))].response

\* C6 witness: two different candidates share the highest score and the one
\* validated first is returned.
C6_Witness ==
    /\ Exhausted
    /\ \E j, k \in DOMAIN last.result.validated :
          /\ j < k
          /\ last.result.validated[j].score = HighestScore(last.result.validated)
          /\ last.result.validated[k].score = HighestScore(last.result.validated)
          /\ last.result.validated[j].response # last.result.validated[k].response
          /\ last.result.response = last.result.validated[j].response

(***************************************************************************)
(* Claims about a turn of process_instruction.                             *)
(***************************************************************************)
\* a candidate that fails the type or limit checks
Malformed(candidate) ==
    \/ ~AllNumeric(candidate.strokes)
    \/ Len(candidate.strokes) > MAX_STROKES_PER_STEP
    \/ \E i \in DOMAIN candidate.strokes : Len(candidate.strokes[i]) > MAX_POINTS_PER_STROKE

SameCanvas(m1, m2) ==
    /\ m1.strokes_history = m2.strokes_history
    /\ m1.anchors = m2.anchors
    /\ m1.features = m2.features
    /\ m1.next_stroke_id = m2.next_stroke_id

\* C7 as stated: a turn whose candidate holds a non-numeric coordinate, or
\* fails the limit checks, ends with an error message and leaves
\* strokes_history, anchors, the feature index and the next stroke id as
\* they were.
C7_MalformedCandidateAborts ==
    [][(/\ last'.op = "process_instruction"
        /\ last'.candidate # <<>>
        /\ Malformed(last'.candidate[1]))
       => (last'.error /\ SameCanvas(memory, memory'))]_vars

\* C7 witness: a turn on the agent path ended with an error message and a
\* stroke with a non-numeric coordinate is in strokes_history.
C7_Witness ==
    /\ last.op = "process_instruction"
    /\ input.use_langchain
    /\ last.error
    /\ \E i \in DOMAIN memory.strokes_history :
          /\ memory.strokes_history[i].points = BadPts
          /\ memory.strokes_history[i].id = memory.next_stroke_id - 1

InUnit(c) == IsNumber(c) => (0 <= c /\ c <= 1000)

\* C8 as stated: in every reachable state every point of every stroke of
\* strokes_history has both coordinates in [0, 1], on either path.
C8_HistoryInUnitSquare ==
    \A i \in DOMAIN memory.strokes_history :
        \A j \in DOMAIN memory.strokes_history[i].points :
            /\ InUnit(memory.strokes_history[i].points[j][1])
            /\ InUnit(memory.strokes_history[i].points[j][2])

\* C8 witness: a turn on the agent path has committed the stroke
\* (1.5, 0.2)-(0.3, -0.4) as the generator gave it.
C8_Witness ==
    /\ last.op = "process_instruction"
    /\ input.use_langchain
    /\ \E i \in DOMAIN memory.strokes_history : memory.strokes_history[i].points = OutsidePts

(***************************************************************************)
(* Claims about the state summary, undo and the serialization.             *)
(***************************************************************************)
\* the text has an entry for the stroke at position i (0-based) of the history
HasStrokeEntry(summary, history, i) ==
    \E e \in summary.strokes : e.index = i /\ e.id = history[i + 1].id

HasAnchorLine(summary, name) == \E e \in summary.anchors : e.name = name

\* C11: in every reachable memory state the text of get_state_summary has an
\* entry for every stroke of strokes_history, preview or confirmed, and a
\* line for every name of the anchor store.
C11_SummaryComplete ==
    LET summary == get_state_summary(memory)
    IN  /\ \A i \in 0..(Len(memory.strokes_history) - 1) :
              HasStrokeEntry(summary, memory.strokes_history, i)
        /\ \A name \in DOMAIN memory.anchors : HasAnchorLine(summary, name)

\* C11, the state that breaks it: the history holds a labelled stroke that
\* has no points and one that has; the text announces two strokes, lists
\* the second and every anchor, and has no entry for the first
C11_Witness ==
    LET summary == get_state_summary(memory)
        history == memory.strokes_history
    IN  /\ Len(history) = 2
        /\ history[1].points = <<>> /\ history[1].label = <<"square", "1">>
        /\ history[2].points # <<>>
        /\ summary.total = 2
        /\ ~HasStrokeEntry(summary, history, 0)
        /\ HasStrokeEntry(summary, history, 1)
        /\ memory.anchors # EmptyDict
        /\ \A name \in DOMAIN memory.anchors : HasAnchorLine(summary, name)

\* C12: undo_last_strokes(n) with n >= 1 removes exactly the last
\* min(n, length) strokes of strokes_history and leaves the strokes before
\* them unchanged and in their order; with n <= 0 it changes nothing.
C12_UndoRemovesLastN ==
    [][last'.op = "undo_last_strokes" =>
        LET n == last'.count
            history == memory.strokes_history
            k == IF n <= Len(history) THEN n ELSE Len(history)
        IN  IF n >= 1
            THEN /\ Len(memory'.strokes_history) = Len(history) - k
                 /\ \A i \in 1..(Len(history) - k) : memory'.strokes_history[i] = history[i]
            ELSE memory' = memory]_vars

\* C12: undo_last_strokes(2) has removed the last two of three strokes and
\* left the first
C12_Witness ==
    /\ last.op = "undo_last_strokes" /\ last.count = 2
    /\ Len(issued) = 3
    /\ Len(memory.strokes_history) = 1
    /\ memory.strokes_history[1].id = issued[1]

(***************************************************************************)
(* Claims about the score.                                                 *)
(***************************************************************************)
\* max(0, 1.0 - 0.3 * E - 0.1 * W) in exact thousandths
ClosedForm(issues) ==
    Max2(0, 1000 - ErrorPenalty * ErrorCount(issues) - WarningPenalty * WarningCount(issues))

InZeroOne(score) == ~FloatLess(score, FloatOf(0)) /\ ~FloatLess(FloatOf(1000), score)

\* C13 as stated: the score of validate equals max(0, 1.0 - 0.3 * E - 0.1 * W)
\* for the E errors and W warnings of the issue list, so that every error
\* lowers it by exactly 0.3 and every warning by exactly 0.1 down to the
\* floor 0.0; it lies within [0, 1].
C13_ScoreEqualsClosedForm ==
    Validated =>
        /\ last.result.score = FloatOf(ClosedForm(last.result.issues))
        /\ InZeroOne(last.result.score)

\* C13 amended: the score lies within [0, 1] and differs from
\* max(0, 1.0 - 0.3 * E - 0.1 * W) by less than 10^-15 (360 units of
\* 2^-56 / 5), the rounding of the repeated float subtraction.
C13_ScoreWithinRounding ==
    Validated =>
        /\ last.result.score.dec = ClosedForm(last.result.issues)
        /\ last.result.score.err <= 360 /\ last.result.score.err >= 0 - 360
        /\ InZeroOne(last.result.score)

\* C13 witness: three warnings and no error give 0.7000000000000001, one
\* ulp above the double 0.7
C13_Witness ==
    /\ Validated
    /\ ErrorCount(last.result.issues) = 0
    /\ WarningCount(last.result.issues) = 3
    /\ last.result.score = Float(700, FloatOf(700).err + 5 * 8)
    /\ last.result.score # FloatOf(700)

(***************************************************************************)
(* Claims about the execution in chunks.                                   *)
(***************************************************************************)
\* the executing thread is between two chunks: at the head of the loop,
\* before the flag is read for the next chunk, or past the loop
BetweenChunks == last.pc \in {"check", "done"}

IsPrefix(s, t) == Len(s) <= Len(t) /\ SubSeq(t, 1, Len(s)) = s

C15_ContinueResumes ==
    [][(memory.stop_flag /\ last'.op = "process_instruction"
            /\ last'.instruction = ContinueInstruction) => ~memory'.stop_flag]_vars

\* C15, the state that breaks it: "continue" was processed and the stop
\* flag, which only "stop" sets, is still set
C15_Witness ==
    /\ last.op = "process_instruction" /\ last.instruction = ContinueInstruction
    /\ ~last.error
    /\ memory.stop_flag

(***************************************************************************)
(* Claims about the web host.                                              *)
(***************************************************************************)
\* thread t is inside add_strokes
InAddStrokes(t) == last.threads[t].pc \in {"read", "append", "load", "store", "anchors"}

\* C16: the requests that mutate the shared memory are serialized: the
\* add_strokes steps of two concurrent /api/process requests never
\* interleave, so that no two strokes of the history have the same id and
\* no two have the same numbered label.
C16_RequestsSerialized ==
    last.op = "api_process" =>
        /\ \A t, o \in Requests : (t # o /\ InAddStrokes(t)) => ~InAddStrokes(o)
        /\ \A i, j \in DOMAIN memory.strokes_history :
              i # j =>
                 /\ memory.strokes_history[i].id # memory.strokes_history[j].id
                 /\ memory.strokes_history[i].label # None =>
                        memory.strokes_history[i].label # memory.strokes_history[j].label

\* C16, the state that breaks it: both requests have returned, the history
\* holds two strokes with the id 0 and the label square_1, and the counter
\* was advanced once
C16_Witness ==
    /\ last.op = "api_process"
    /\ \A t \in Requests : last.threads[t].pc = "done"
    /\ Len(memory.strokes_history) = 2
    /\ memory.strokes_history[1].id = 0 /\ memory.strokes_history[2].id = 0
    /\ memory.strokes_history[1].label = <<"square", "1">>
    /\ memory.strokes_history[2].label = <<"square", "1">>
    /\ memory.next_stroke_id = 1

(***************************************************************************)
(* Claims about the serialization.                                         *)
(***************************************************************************)
\* C17: DrawingMemory.from_dict(m.to_dict()) reproduces every stroke's id,
\* points, label and state, the anchor map and the next-id counter, so that
\* an id handed out before the serialization is not handed out again after
\* the deserialization.
C17_RoundTripExact ==
    [][/\ last'.op = "from_dict" =>
            /\ memory'.strokes_history = memory.strokes_history
            /\ memory'.anchors = memory.anchors
            /\ memory'.next_stroke_id = memory.next_stroke_id
       /\ last'.op = "add_strokes" =>
            \A i \in DOMAIN last'.ids : \A j \in DOMAIN issued : last'.ids[i] # issued[j]]_vars

\* C17, the state that breaks it: after an undo and a restart add_strokes
\* has handed out an id for the second time
C17_Witness ==
    /\ last.op = "add_strokes"
    /\ \E i, j \in DOMAIN issued : i < j /\ issued[i] = issued[j] /\ issued[j] = last.ids[1]
    /\ memory.next_stroke_id < Len(issued)

(***************************************************************************)
(* Claims about single strokes and pairs.                                  *)
(***************************************************************************)
SingleStroke == Validated /\ Len(input.strokes) = 1

CandidateBox == from_points(input.strokes[1])

AllInUnit(points) == \A i \in DOMAIN points : InUnit(points[i][1]) /\ InUnit(points[i][2])

\* two closed boxes with a common point
Intersect(a, b) ==
    /\ Min2(a.max_x, b.max_x) >= Max2(a.min_x, b.min_x)
    /\ Min2(a.max_y, b.max_y) >= Max2(a.min_y, b.min_y)

ClearOfExisting ==
    \A k \in DOMAIN ExistingStrokes(memory) :
        ~Intersect(CandidateBox, from_points(ExistingStrokes(memory)[k]))

NoSpatialWords == expected_spacing(input.instruction) = None

CleanCase == SingleStroke /\ AllInUnit(input.strokes[1]) /\ ClearOfExisting /\ NoSpatialWords

\* C18 as stated: a single candidate stroke with every coordinate in [0, 1]
\* whose box intersects no box of an existing stroke, validated with an
\* instruction that holds no spatial-relation word, gets the score 1.0 and
\* zero issues.
C18_CleanStrokeScoresOne ==
    CleanCase => (last.result.score = FloatOf(1000) /\ last.result.issues = <<>>)

\* C18 amended: such a stroke gets the score 1.0 and zero issues when the
\* area of its box lies strictly between 0.005 and 0.8; a smaller or a larger
\* box gets one size warning and the score 0.9.
C18_CleanStrokeOfSaneSize ==
    CleanCase =>
        IF Area(CandidateBox) > 5000 /\ Area(CandidateBox) < 800000
        THEN last.result.score = FloatOf(1000) /\ last.result.issues = <<>> /\ last.result.valid
        ELSE (Area(CandidateBox) < 5000 \/ Area(CandidateBox) > 800000) =>
                 /\ last.result.issues = <<ValidationIssue("warning", "size", <<0>>)>>
                 /\ last.result.score = calculate_score(last.result.issues)
                 /\ last.result.score.dec = 900

\* C18 witness: the stroke right of an existing square, validated with the
\* plain instruction: score 1.0, no issue.
C18_Witness ==
    /\ CleanCase
    /\ memory.strokes_history # <<>>
    /\ input.strokes = <<NearPts>>
    /\ last.result.score = FloatOf(1000)
    /\ last.result.issues = <<>>

\* the first two strokes of the candidate carry labels with one base token
LabelledPair ==
    /\ Validated
    /\ Len(input.strokes) >= 2
    /\ \E k1, k2 \in DOMAIN input.labels :
           /\ KeyIndex(k1) = 0 /\ KeyIndex(k2) = 1
           /\ input.labels[k1] # None /\ input.labels[k2] # None
           /\ input.labels[k1][1] = input.labels[k2][1]

\* and no third label of the dict has that base token
OnlyPair ==
    \A k1, k2, k3 \in DOMAIN input.labels :
        (Cardinality({k1, k2, k3}) = 3 /\ input.labels[k1] # None
            /\ input.labels[k2] # None /\ input.labels[k3] # None)
        => Cardinality({input.labels[k1][1], input.labels[k2][1], input.labels[k3][1]}) > 1

FirstBox == from_points(input.strokes[1])

SecondBox == from_points(input.strokes[2])

XOverlap(a, b) == Min2(a.max_x, b.max_x) - Max2(a.min_x, b.min_x)

SymmetryErrors(issues) ==
    Cardinality({i \in DOMAIN issues :
        issues[i].severity = "error" /\ issues[i].category = "symmetry"})

AlignedPair == LabelledPair /\ FirstBox.center_y = SecondBox.center_y

\* C19 as stated: two candidate strokes whose labels share the base token,
\* with identical Y centers and overlapping X ranges, get exactly one issue
\* of severity error and category symmetry.
C19_OverlappingPairOneError ==
    (AlignedPair /\ XOverlap(FirstBox, SecondBox) > 0) =>
        SymmetryErrors(last.result.issues) = 1

\* C19 amended: such a pair, the only two labels of the dict with that base
\* token, gets exactly one issue of severity error and category symmetry when
\* the X ranges overlap by more than 0.01, and none when they overlap by less
\* than 0.01.
C19_OverlapAboveEpsilonOneError ==
    (AlignedPair /\ OnlyPair) =>
        /\ XOverlap(FirstBox, SecondBox) > 10 => SymmetryErrors(last.result.issues) = 1
        /\ XOverlap(FirstBox, SecondBox) < 10 => SymmetryErrors(last.result.issues) = 0

\* C19 witness: ear_left on the square and ear_right on the shifted square,
\* both centred at y = 0.5 and 0.1 into each other in X: one symmetry error.
C19_Witness ==
    /\ AlignedPair
    /\ input.labels = EarLabels
    /\ input.strokes = <<SquarePts, ShiftedPts>>
    /\ XOverlap(FirstBox, SecondBox) = 100
    /\ SymmetryErrors(last.result.issues) = 1
    /\ ~last.result.valid


(***************************************************************************)
(* Claims about the box functions.                                         *)
(***************************************************************************)
\* C20: for any two boxes a and b, when _compute_overlap_ratio(a, b) is
\* above 0 then _compute_distance(a, b) is 0.
C20_OverlapImpliesZeroDistance ==
    (last.op = "boxes" /\ RatioAbove(last.overlap_ratio, 0)) => last.distance_squared = 0

\* C20 witness: two different boxes that share a part of their area, at
\* distance 0.
C20_Witness ==
    /\ last.op = "boxes"
    /\ input.a # input.b
    /\ RatioAbove(last.overlap_ratio, 0)
    /\ ~RatioAbove(last.overlap_ratio, 999)
    /\ last.distance_squared = 0


(***************************************************************************)
(* Claims about the Coordinate Normalizer.                                 *)
(***************************************************************************)
\* the value of [0, 1] nearest to c
NearestInUnit(c) == IF c < 0 THEN 0 ELSE IF c > 1000 THEN 1000 ELSE c

\* C21: clamp_normalized maps each axis on its own into [0.0, 1.0] (the x of
\* the result depends on x only, the y on y only, a value in the range is
\* kept and one outside goes to the nearer edge), and clamping a clamped
\* point returns the same point.
C21_ClampIdempotent ==
    last.op = "clamp" =>
        /\ last.once = <<NearestInUnit(input.x), NearestInUnit(input.y)>>
        /\ \A c \in ClampCoords :
               /\ clamp_normalized(input.x, c)[1] = last.once[1]
               /\ clamp_normalized(c, input.y)[2] = last.once[2]
        /\ last.twice = last.once

\* C21 witness: x above the range and y below it; the clamped point is the
\* corner (1, 0) and clamping it again returns it.
C21_Witness ==
    /\ last.op = "clamp"
    /\ input.x > 1000 /\ input.y < 0
    /\ last.once = <<1000, 0>>
    /\ last.twice = <<1000, 0>>


(***************************************************************************)
(* Claims about the end of the Repair Loop.                                *)
(***************************************************************************)
\* C22: as soon as a candidate validates as valid, _validate_and_repair
\* returns that candidate: the valid result is the last call of the
\* validator, the generator was called only for the candidates before it,
\* and the response returned is the valid candidate.
C22_FirstValidReturnedAtOnce ==
    Repaired =>
        \A k \in DOMAIN last.result.validated :
            last.result.validated[k].valid =>
                /\ k = Len(last.result.validated)
                /\ last.result.calls = k - 1
                /\ last.result.response = last.result.validated[k].response

\* C22 witness: the first candidate is invalid, the first repair is valid
\* and is returned, and the second repair the generator could still have made
\* (another response than the one returned) is never asked for.
C22_Witness ==
    /\ Repaired
    /\ input.max_iterations = 2
    /\ Len(last.result.validated) = 2
    /\ ~last.result.validated[1].valid
    /\ last.result.validated[2].valid
    /\ last.result.calls = 1
    /\ last.result.response = input.gen[1]
    /\ input.gen[2] # input.gen[1]
    /\ input.response.strokes # last.result.response.strokes

\* the generator raised in the last repair call that was made
GeneratorRaised ==
    /\ Repaired
    /\ last.result.calls >= 1
    /\ input.gen[last.result.calls].raises

\* C23: when the generator raises during a repair attempt,
\* _validate_and_repair returns a response (raises nothing), the raising call
\* is the last call of the generator, the validator is not called after it,
\* and the response returned is the candidate of highest score among the
\* validated ones (the first of them on a tie).
C23_GeneratorFailureReturnsBest ==
    GeneratorRaised =>
        /\ ~last.result.response.raises
        /\ \A k \in 1..(last.result.calls - 1) : ~input.gen[k].raises
        /\ Len(last.result.validated) = last.result.calls
        /\ \A k \in DOMAIN last.result.validated : ~last.result.validated[k].valid
        /\ last.result.response =
               last.result.validated[FirstWithScore(last.result.validated,
                                                    HighestScore(last.result.validated))].response

\* C23 witness: the first candidate scores 0.6000000000000001, the first
\* repair scores 0.7, the second repair call raises with one pass of the loop
\* unused, and the first repair is returned.
C23_Witness ==
    /\ GeneratorRaised
    /\ input.max_iterations = 2
    /\ last.result.calls = 2
    /\ Len(last.result.validated) = 2
    /\ FloatLess(last.result.validated[1].score, last.result.validated[2].score)
    /\ last.result.response = input.gen[1]

(***************************************************************************)
(* Claims about the order of the steps of a turn.                          *)
(***************************************************************************)
\* the points of the strokes a turn appended to a history of length n
Appended(history, n) == [i \in 1..(Len(history) - n) |-> history[n + i].points]

\* C24 as stated: on the path of main_loop.py the candidate is clamped
\* before the validator scores it, so the strokes a turn commits to
\* strokes_history are point for point the strokes of the candidate the
\* validator scored.
C24_CommittedAsScored ==
    [][(/\ last'.op = "process_instruction"
        /\ ~input.use_langchain
        /\ Len(memory'.strokes_history) > Len(memory.strokes_history))
       => Appended(memory'.strokes_history, Len(memory.strokes_history))
              = last'.candidate[1].strokes]_vars

\* C24 witness: the first turn validated the stroke (1.5, 0.2)-(0.3, -0.4)
\* (valid) and committed the stroke (1.0, 0.2)-(0.3, 0.0).
C24_Witness ==
    /\ last.op = "process_instruction"
    /\ ~input.use_langchain
    /\ last.candidate # <<>>
    /\ last.candidate[1].strokes = <<OutsidePts>>
    /\ validate(<<OutsidePts>>, EmptyDict, EmptyDict, <<>>, last.instruction).valid
    /\ Len(memory.strokes_history) = 1
    /\ memory.strokes_history[1].points = <<<<1000, 200>>, <<300, 0>>>>

(***************************************************************************)
(* Claims about the feature index and the preview strokes.                 *)
(***************************************************************************)
IdsOf(history) == {history[i].id : i \in DOMAIN history}

IndexedIds(features) == UNION {IdSet(features[k]) : k \in DOMAIN features}

\* C25: after any sequence of commits, undo_last_strokes and
\* reject_preview_strokes every stroke id listed in an entry of the feature
\* index is the id of a stroke of strokes_history.
C25_FeatureIdsInHistory ==
    IndexedIds(memory.features) \subseteq IdsOf(memory.strokes_history)

\* C25 witness: an undo or a reject has emptied the id list of one label
\* while a stroke indexed under another label is still in the history.
C25_Witness ==
    /\ last.op \in {"undo_last_strokes", "reject_preview_strokes"}
    /\ \E k \in DOMAIN memory.features : memory.features[k] = <<>>
    /\ IndexedIds(memory.features) # {}
    /\ IndexedIds(memory.features) \subseteq IdsOf(memory.strokes_history)

PreviewCount(history) ==
    Cardinality({i \in DOMAIN history : history[i].state = "preview"})

\* the strokes of a history that are not in state preview, in order
RECURSIVE WithoutPreview(_)
WithoutPreview(history) ==
    IF history = <<>> THEN <<>>
    ELSE IF history[1].state = "preview" THEN WithoutPreview(Tail(history))
    ELSE <<history[1]>> \o WithoutPreview(Tail(history))

\* C26: confirm_preview_strokes and reject_preview_strokes each return the
\* number of strokes that were in state preview and leave none in that state;
\* confirm keeps every stroke at its position with its id, points and label
\* and only turns preview into confirmed; reject removes exactly the preview
\* strokes and keeps the other strokes unchanged and in order.
C26_ConfirmAndRejectPreview ==
    [][/\ last'.op = "confirm_preview_strokes" =>
           /\ last'.count = PreviewCount(memory.strokes_history)
           /\ PreviewCount(memory'.strokes_history) = 0
           /\ Len(memory'.strokes_history) = Len(memory.strokes_history)
           /\ \A i \in DOMAIN memory.strokes_history :
                  memory'.strokes_history[i] =
                      [memory.strokes_history[i] EXCEPT !.state =
                          IF @ = "preview" THEN "confirmed" ELSE @]
       /\ last'.op = "reject_preview_strokes" =>
           /\ last'.count = PreviewCount(memory.strokes_history)
           /\ PreviewCount(memory'.strokes_history) = 0
           /\ memory'.strokes_history = WithoutPreview(memory.strokes_history)
           /\ Len(memory'.strokes_history) = Len(memory.strokes_history) - last'.count]_vars

\* C26 witness: reject has removed one preview stroke, the one with id 1,
\* from between the confirmed strokes 0 and 2.
C26_Witness ==
    /\ last.op = "reject_preview_strokes"
    /\ last.count = 1
    /\ HistoryIds = <<0, 2>>
    /\ issued = <<0, 1, 2>>
    /\ PreviewCount(memory.strokes_history) = 0

(***************************************************************************)
(* Claims about last_position.                                             *)
(***************************************************************************)
\* the final point of the last stroke of the history that has points, the
\* canvas centre when there is none
RECURSIVE LastDrawnPoint(_)
LastDrawnPoint(history) ==
    IF history = <<>> THEN Center
    ELSE LET stroke == history[Len(history)]
         IN  IF stroke.points # <<>> THEN stroke.points[Len(stroke.points)]
             ELSE LastDrawnPoint(SubSeq(history, 1, Len(history) - 1))

\* C27 as stated: after undo_last_strokes(n) with n >= 1, last_position is
\* the final point of the last stroke that remains in strokes_history, or the
\* canvas centre (0.5, 0.5) when none remains.  A remaining stroke without
\* points has no final point; the formula then looks further back, to the
\* last remaining stroke that has one.
C27_LastPositionFollowsTail ==
    [][(last'.op = "undo_last_strokes" /\ last'.count >= 1)
       => memory'.last_position = LastDrawnPoint(memory'.strokes_history)]_vars

\* C27 witness: undo has removed the square; the stroke that remains has no
\* points, and last_position is still the end of the removed square.
C27_Witness ==
    /\ last.op = "undo_last_strokes" /\ last.count = 1
    /\ Len(memory.strokes_history) = 1
    /\ memory.strokes_history[1].points = <<>>
    /\ memory.last_position = SquarePts[Len(SquarePts)]
    /\ memory.last_position # Center

(***************************************************************************)
(* Claims about labels and anchors after strokes were removed.             *)
(***************************************************************************)
\* C28 as stated: after any sequence of add_strokes, undo_last_strokes,
\* confirm_preview_strokes and reject_preview_strokes no two strokes of
\* strokes_history carry the same label.
C28_LabelsUnique ==
    \A i, j \in DOMAIN memory.strokes_history :
        (i < j /\ memory.strokes_history[i].label # None)
        => memory.strokes_history[i].label # memory.strokes_history[j].label

\* C28 witness: square_1 was added as a preview and square_2 confirmed, the
\* preview was rejected, and the square added next is named square_2 as well.
C28_Witness ==
    /\ last.op = "add_strokes"
    /\ issued = <<0, 1, 2>>
    /\ HistoryIds = <<1, 2>>
    /\ HistoryLabels = <<<<"square", "2">>, <<"square", "2">>>>
    /\ memory.strokes_history[1].points # <<>>
    /\ memory.strokes_history[2].points # <<>>

\* C29 as stated: in a sequence of add_strokes, undo_last_strokes,
\* confirm_preview_strokes and reject_preview_strokes alone, for every
\* labelled stroke with points of strokes_history the anchor <label>_center
\* is the midpoint of the bounding box of that stroke.
C29_CenterAnchorOfStroke ==
    \A i \in DOMAIN memory.strokes_history :
        LET stroke == memory.strokes_history[i]
        IN  (stroke.label # None /\ stroke.points # <<>>)
            => IsAnchorAt(memory.anchors, stroke.label \o <<"center">>,
                          TwiceExpected(BoxOf(stroke.points), <<"center">>))

\* C29 witness: a square at (0.4, 0.4)-(0.6, 0.6) was added and undone, the
\* square added next lies at (0.5, 0.4)-(0.7, 0.6) and is the only stroke;
\* it is named square_1 and square_1_center is still (0.5, 0.5).
C29_Witness ==
    /\ last.op = "add_strokes"
    /\ issued = <<0, 1>>
    /\ HistoryIds = <<1>>
    /\ memory.strokes_history[1].points = ShiftedPts
    /\ memory.strokes_history[1].label = <<"square", "1">>
    /\ memory.anchors[<<"square", "1", "center">>] = Point(500, 500)
    /\ TwiceExpected(BoxOf(ShiftedPts), <<"center">>) = <<1200, 1000>>

(***************************************************************************)
(* Claims about confirmed strokes and the plotter.                         *)
(***************************************************************************)
\* C30 as stated: a stroke is in state confirmed only if its chunk was handed
\* to the plotter: neither the commit of process_instruction nor the web
\* confirmation marks a stroke confirmed whose chunk was skipped because the
\* stop flag was set.
C30_ConfirmedOnlyIfPlotted ==
    \A i \in DOMAIN memory.strokes_history :
        memory.strokes_history[i].state = "confirmed"
        => memory.strokes_history[i].id \in last.handed

\* C30 witness: in preview mode a turn added preview strokes, a stop turn set
\* the flag, and the web confirmation marked the strokes confirmed while no
\* stroke was ever handed to the plotter.
C30_Witness ==
    /\ last.op = "confirm_preview"
    /\ input.PREVIEW_MODE
    /\ memory.stop_flag
    /\ last.handed = {}
    /\ memory.strokes_history # <<>>
    /\ \A i \in DOMAIN memory.strokes_history : memory.strokes_history[i].state = "confirmed"

====
